---- MODULE Spec2Model ----
(***************************************************************************)
(* A model of the configuration conversion pipeline of                     *)
(* mcp-config-converter: the LiteLLM generation client (retry loop and     *)
(* model-index resolution), the provider registry's cost-ranked selection, *)
(* the configuration format cascade, the dictionary merges, the convert   *)
(* command from its argument checks to the write of the destination, the   *)
(* serializers of convert_from_json and the client's API key resolution.   *)
(*                                                                         *)
(* Each component has its own specification (SpecGen, SpecReg, ...) over   *)
(* the shared variables; a component's specification holds the variables   *)
(* of the other components at their idle values.                           *)
(***************************************************************************)
EXTENDS FiniteSets, Integers, Sequences, TLC

VARIABLES
    (* LiteLLMClient.generate *)
    max_retries,      \* self.max_retries
    retry_delay,      \* self.retry_delay, in whole seconds
    attempt,          \* loop variable of "for attempt in range(self.max_retries)"
    last_exception,   \* local last_exception
    gen_trace,        \* completion() calls and time.sleep() calls, in order
    gen_result,       \* what generate() returned or raised
    (* retry_with_backoff *)
    rb_impl,          \* the module of the decorator: cli.utils or cli_helpers
    rb_conf,          \* max_retries, initial_delay, backoff_factor, exceptions
    rb_attempt,       \* loop variable of "for attempt in range(max_retries + 1)"
    rb_delay,         \* local delay
    rb_last,          \* local last_exception
    rb_trace,         \* func() calls and time.sleep() calls, in order
    rb_console,       \* console.print() messages, in order
    rb_result,        \* what the wrapper returned or raised
    (* get_default_output_path / show-defaults *)
    out_files,        \* PROVIDER_DEFAULT_OUTPUT_FILES, in insertion order
    out_files0,       \* PROVIDER_DEFAULT_OUTPUT_FILES as the module defines it
    out_env,          \* the MCP_CONFIG_CONV_*_DEFAULT_OUTPUT variables
    out_result,       \* what the last get_default_output_path call returned
    out_count,        \* number of lookups made so far
    sd_listed,        \* the providers the last show-defaults listed
    (* ProviderRegistry.select_best_provider *)
    registry,         \* _PROVIDER_REGISTRY, in insertion order
    health,           \* per provider: what constructing and validating does
    sel_tried,        \* provider names constructed so far, in order
    sel_log,          \* logger.debug records written by the selection
    sel_result,       \* what select_best_provider returned or raised
    (* select_auto_provider / create_client_from_env *)
    auto_result,      \* what select_auto_provider returned or raised
    ce_conf,          \* the MCP_CONFIG_CONF_* variables
    ce_keys,          \* per provider: one of its API key variables is set
    ce_models,        \* get_available_models() of the chosen provider is not empty
    ce_client,        \* what create_client_from_env returned or raised
    (* get_provider_cost / get_providers_sorted_by_cost *)
    cost_env,         \* the MCP_CONVERT_CONF_<P>_COST variables
    gc_provider,      \* the provider argument of get_provider_cost
    gc_result,        \* what get_provider_cost returned, and whether it warned
    gs_input,         \* the providers argument of get_providers_sorted_by_cost
    gs_result,        \* what get_providers_sorted_by_cost returned
    (* ProviderRegistry lookups and create_provider *)
    registry0,        \* _PROVIDER_REGISTRY as startup registration left it
    op_call,          \* the last call made on the registry
    op_result,        \* what that call returned or raised
    op_count,         \* number of calls made so far
    (* LiteLLMClient.__init__ / _resolve_model *)
    rm_model,         \* the model argument
    rm_available,     \* what get_available_models() yields
    rm_fetched,       \* number of get_available_models() calls
    rm_result,        \* what _resolve_model returned or raised
    rm_client,        \* the constructed client, or NoClient
    (* LiteLLMClient.__init__ / _get_api_key_from_env *)
    ak_provider,      \* the provider argument
    ak_explicit,      \* the api_key argument
    ak_env,           \* os.environ
    ak_key,           \* self.api_key
    (* determine_config_format / parse_config_string *)
    cfg,              \* the text under classification
    fmt_result,       \* determine_config_format(cfg)
    parse_result,     \* parse_config_string(cfg)
    (* convert_from_json then parse_config_string *)
    rt_value,         \* the container handed to convert_from_json
    rt_dialect,       \* the format_type handed to convert_from_json
    rt_out,           \* what convert_from_json returned or raised
    rt_parsed,        \* parse_config_string of the returned text
    (* merge_dicts *)
    heap,             \* dict objects by identity
    md_base,          \* reference of the base argument
    md_override,      \* reference of the override argument
    md_result,        \* reference of the returned dict, 0 before the call
    md_heap0,         \* the heap when merge_dicts was called
    md_replaced,      \* what convert's merge step makes of the same two dicts
    (* convert (merge against an existing destination) *)
    cv_pc,            \* position in convert()
    cv_action,        \* output_action
    cv_dest,          \* the destination path: its parent directory, the file
    cv_dest0,         \* the destination path when convert started
    cv_new,           \* ConfigTransformer.transform()'s result text
    cv_opts,          \* the command's other arguments, once read
    cv_result,        \* local "result" that is written
    cv_calls,         \* number of ConfigTransformer.transform() calls
    cv_console,       \* console.print() messages, in order
    cv_exc,           \* the exception that ended the run, and where it rose
    cv_exit           \* the process exit code, -1 while convert runs

rbVars == <<rb_impl, rb_conf, rb_attempt, rb_delay, rb_last, rb_trace, rb_console,
            rb_result>>
outVars == <<out_files, out_files0, out_env, out_result, out_count, sd_listed>>
genVars == <<max_retries, retry_delay, attempt, last_exception, gen_trace, gen_result,
             rbVars, outVars>>
autoVars == <<auto_result, ce_conf, ce_keys, ce_models, ce_client>>
costVars == <<cost_env, gc_provider, gc_result, gs_input, gs_result>>
opsVars == <<registry0, op_call, op_result, op_count>>
regExtra == <<autoVars, costVars, opsVars>>
regVars == <<registry, health, sel_tried, sel_log, sel_result, regExtra>>
rmVars  == <<rm_model, rm_available, rm_fetched, rm_result, rm_client,
             ak_provider, ak_explicit, ak_env, ak_key>>
fmtVars == <<cfg, fmt_result, parse_result, rt_value, rt_dialect, rt_out, rt_parsed>>
mdVars  == <<heap, md_base, md_override, md_result, md_heap0, md_replaced>>
cvVars  == <<cv_pc, cv_action, cv_dest, cv_dest0, cv_new, cv_opts, cv_result,
             cv_calls, cv_console, cv_exc, cv_exit>>
vars == <<genVars, regVars, rmVars, fmtVars, mdVars, cvVars>>

(***************************************************************************)
(* Bounds of the model.                                                    *)
(***************************************************************************)
MaxRetriesBound == 4    \* max_retries ranges over -1 .. MaxRetriesBound
MaxDelay == 2           \* retry_delay ranges over 1 .. MaxDelay

RECURSIVE Pow2(_)
Pow2(n) == IF n <= 0 THEN 1 ELSE 2 * Pow2(n - 1)

Range(s) == {s[i] : i \in 1..Len(s)}

(***************************************************************************)
(* Idle values of each component.                                          *)
(***************************************************************************)
NoException == [kind |-> "None", at |-> 0]
Pending == [status |-> "pending"]

RbIdle ==
    /\ rb_impl = "" /\ rb_conf = [max_retries |-> 0] /\ rb_attempt = 0
    /\ rb_delay = 0 /\ rb_last = NoException /\ rb_trace = <<>>
    /\ rb_console = <<>> /\ rb_result = Pending
OutIdle ==
    /\ out_files = <<>> /\ out_files0 = <<>> /\ out_env = <<>>
    /\ out_result = Pending /\ out_count = 0 /\ sd_listed = Pending
GenIdle ==
    /\ max_retries = 0 /\ retry_delay = 0 /\ attempt = 0
    /\ last_exception = NoException
    /\ gen_trace = <<>> /\ gen_result = Pending
    /\ RbIdle /\ OutIdle
AutoIdle ==
    /\ auto_result = Pending /\ ce_conf = [provider |-> "", other |-> FALSE]
    /\ ce_keys = <<>> /\ ce_models = FALSE /\ ce_client = Pending
CostIdle ==
    /\ cost_env = <<>> /\ gc_provider = "" /\ gc_result = Pending
    /\ gs_input = [given |-> FALSE, list |-> <<>>] /\ gs_result = Pending
OpsIdle ==
    /\ registry0 = <<>> /\ op_call = [op |-> "none"] /\ op_result = Pending
    /\ op_count = 0
RegExtraIdle == AutoIdle /\ CostIdle /\ OpsIdle
RegIdle ==
    /\ registry = <<>> /\ health = <<>> /\ sel_tried = <<>>
    /\ sel_log = <<>> /\ sel_result = Pending
    /\ RegExtraIdle
AkIdle ==
    /\ ak_provider = "" /\ ak_explicit = [set |-> FALSE] /\ ak_env = <<>>
    /\ ak_key = Pending
RmIdle ==
    /\ rm_model = [type |-> "none"] /\ rm_available = <<>> /\ rm_fetched = 0
    /\ rm_result = Pending /\ rm_client = [built |-> FALSE]
    /\ AkIdle
RtIdle ==
    /\ rt_value = [t |-> "none"] /\ rt_dialect = ""
    /\ rt_out = Pending /\ rt_parsed = Pending
FmtIdle ==
    /\ cfg = "" /\ fmt_result = "pending" /\ parse_result = [status |-> "pending"]
    /\ RtIdle
MdIdle ==
    /\ heap = <<>> /\ md_base = 0 /\ md_override = 0 /\ md_result = 0
    /\ md_heap0 = <<>> /\ md_replaced = Pending
NoExc == [name |-> "None", at |-> "none"]
CvIdle ==
    /\ cv_pc = "idle" /\ cv_action = ""
    /\ cv_dest = [exists |-> FALSE, parent |-> FALSE]
    /\ cv_dest0 = [exists |-> FALSE, parent |-> FALSE]
    /\ cv_new = [fmt |-> "none"]
    /\ cv_opts = [read |-> FALSE]
    /\ cv_result = [fmt |-> "none"]
    /\ cv_calls = 0 /\ cv_console = <<>> /\ cv_exc = NoExc
    /\ cv_exit = -1

(***************************************************************************)
(* LiteLLMClient.generate: the retry loop.                                 *)
(***************************************************************************)
RetryableErrors_AnyException ==
    {"RateLimitError", "ServiceUnavailableError", "APIConnectionError",
     "AuthenticationError"}

\* except (RateLimitError, ServiceUnavailableError, APIConnectionError)
RetryableErrors == {"RateLimitError", "ServiceUnavailableError", "APIConnectionError"}
\* any other Exception raised inside the try block
FatalErrors == {"AuthenticationError"}
\* message.content of a successful response
Contents == {"Generated text", "None"}
\* what one completion(**completion_kwargs) call does
CallOutcomes == RetryableErrors \cup FatalErrors \cup Contents \cup {"KeyboardInterrupt"}

CallEvent(o) == [ev |-> "call", what |-> o, delay |-> 0]
SleepEvent(d) == [ev |-> "sleep", what |-> "", delay |-> d]

\* return response.choices[0].message.content or ""
ContentOrEmpty(c) == IF c = "None" THEN "" ELSE c

BackoffDelay_Linear(delay0, att) == delay0 * (att + 1)

\* delay = self.retry_delay * (2**attempt)
BackoffDelay(delay0, att) == delay0 * Pow2(att)

SleepsAfter_EveryFailure(att, retries) == att < retries

\* if attempt < self.max_retries - 1
SleepsAfter(att, retries) == att < retries - 1

InitGen ==
    /\ max_retries \in -1..MaxRetriesBound
    /\ retry_delay \in 1..MaxDelay
    /\ attempt = 0
    /\ last_exception = NoException
    /\ gen_trace = <<>>
    /\ gen_result = Pending
    /\ RbIdle /\ OutIdle
    /\ RegIdle /\ RmIdle /\ FmtIdle /\ MdIdle /\ CvIdle

\* One iteration of the for loop: the completion call and its except clauses.
\* interrupted: a KeyboardInterrupt arrives during time.sleep().
GenAttempt(o, interrupted) ==
    /\ gen_result = Pending
    /\ attempt < max_retries
    /\ LET called == Append(gen_trace, CallEvent(o))
           exc == [kind |-> o, at |-> Len(SelectSeq(called, LAMBDA e : e.ev = "call"))]
       IN
       IF o \in Contents THEN
            /\ gen_trace' = called
            /\ gen_result' = [status |-> "returned", value |-> ContentOrEmpty(o)]
            /\ UNCHANGED <<attempt, last_exception>>
       ELSE IF o \in RetryableErrors THEN
            /\ last_exception' = exc
            /\ IF SleepsAfter(attempt, max_retries)
               THEN /\ gen_trace' = Append(called,
                                      SleepEvent(BackoffDelay(retry_delay, attempt)))
                    /\ IF interrupted
                       THEN /\ gen_result' = [status |-> "raised",
                                              type |-> "KeyboardInterrupt",
                                              cause |-> NoException]
                            /\ UNCHANGED attempt
                       ELSE /\ attempt' = attempt + 1
                            /\ UNCHANGED gen_result
               ELSE /\ gen_trace' = called
                    /\ attempt' = attempt + 1
                    /\ UNCHANGED gen_result
       ELSE IF o = "KeyboardInterrupt" THEN
            \* not an Exception subclass: no except clause catches it
            /\ gen_trace' = called
            /\ gen_result' = [status |-> "raised", type |-> "KeyboardInterrupt",
                              cause |-> NoException]
            /\ UNCHANGED <<attempt, last_exception>>
       ELSE \* except Exception as e: raise RuntimeError(...) from e
            /\ gen_trace' = called
            /\ gen_result' = [status |-> "raised", type |-> "RuntimeError",
                              cause |-> exc]
            /\ UNCHANGED <<attempt, last_exception>>
    /\ UNCHANGED <<max_retries, retry_delay, rbVars, outVars>>
    /\ UNCHANGED <<regVars, rmVars, fmtVars, mdVars, cvVars>>

\* The loop is over: raise RuntimeError(...) from last_exception
GenExhausted ==
    /\ gen_result = Pending
    /\ ~(attempt < max_retries)
    /\ gen_result' = [status |-> "raised", type |-> "RuntimeError",
                      cause |-> last_exception]
    /\ UNCHANGED <<max_retries, retry_delay, attempt, last_exception, gen_trace, rbVars,
                   outVars>>
    /\ UNCHANGED <<regVars, rmVars, fmtVars, mdVars, cvVars>>

NextGen ==
    \/ \E o \in CallOutcomes, i \in BOOLEAN : GenAttempt(o, i)
    \/ GenExhausted

SpecGen == InitGen /\ [][NextGen]_vars

\* The completion calls made so far, and the sleeps, in order.
Calls == SelectSeq(gen_trace, LAMBDA e : e.ev = "call")
Sleeps == SelectSeq(gen_trace, LAMBDA e : e.ev = "sleep")

(***************************************************************************)
(* Claims about LiteLLMClient.generate.                                    *)
(***************************************************************************)
AllRetryable(calls, n) == \A j \in 1..n : calls[j].what \in RetryableErrors

\* C1: for every k with 0 <= k < max_retries, when the first k completion
\* calls fail with a retryable error and call k+1 succeeds, generate returns
\* that response after exactly k+1 calls and exactly k sleeps, the i-th sleep
\* (from 0) lasting retry_delay * 2^i, each sleep following its failed call.
C1_RetryThenSuccess ==
    \A k \in 0..(max_retries - 1) :
        (/\ Len(Calls) >= k + 1
         /\ AllRetryable(Calls, k)
         /\ Calls[k + 1].what \in Contents)
        => /\ gen_result = [status |-> "returned",
                            value |-> IF Calls[k + 1].what = "None" THEN ""
                                      ELSE Calls[k + 1].what]
           /\ Len(Calls) = k + 1
           /\ Len(Sleeps) = k
           /\ \A i \in 0..(k - 1) : Sleeps[i + 1].delay = retry_delay * Pow2(i)
           /\ Len(gen_trace) = 2 * k + 1
           /\ \A i \in 1..k : /\ gen_trace[2 * i - 1].ev = "call"
                              /\ gen_trace[2 * i].ev = "sleep"

\* C1 witness: max_retries = 3, retry_delay = 1, two rate-limit failures and
\* then an answer: sleeps of 1 then 2, three calls.
C1_Witness ==
    /\ max_retries = 3 /\ retry_delay = 1
    /\ gen_trace = <<CallEvent("RateLimitError"), SleepEvent(1),
                     CallEvent("RateLimitError"), SleepEvent(2),
                     CallEvent("Generated text")>>
    /\ gen_result = [status |-> "returned", value |-> "Generated text"]

\* generate() is over and no KeyboardInterrupt cut it short
GenFinishedUninterrupted ==
    /\ gen_result.status # "pending"
    /\ gen_result.status = "raised" => gen_result.type # "KeyboardInterrupt"

\* C2: with max_retries >= 1, when every completion call fails with a
\* retryable error, generate makes exactly max_retries calls, sleeps exactly
\* max_retries - 1 times, never after the last attempt, and raises one
\* RuntimeError whose cause is the last retryable error.
C2_RetryExhaustion ==
    (/\ max_retries >= 1
     /\ AllRetryable(Calls, Len(Calls)))
    => /\ Len(Calls) <= max_retries
       /\ GenFinishedUninterrupted
          => /\ Len(Calls) = max_retries
             /\ Len(Sleeps) = max_retries - 1
             /\ gen_trace[Len(gen_trace)].ev = "call"
             /\ gen_result = [status |-> "raised", type |-> "RuntimeError",
                              cause |-> [kind |-> Calls[max_retries].what,
                                         at |-> max_retries]]

\* C2 witness: max_retries = 2, both calls rate-limited, one sleep, raised.
C2_Witness ==
    /\ max_retries = 2
    /\ gen_trace = <<CallEvent("RateLimitError"), SleepEvent(retry_delay),
                     CallEvent("ServiceUnavailableError")>>
    /\ gen_result.status = "raised"
    /\ gen_result.cause = [kind |-> "ServiceUnavailableError", at |-> 2]

\* C3: a completion call that fails with a non-retryable error ends
\* generate at once: that call is the last event (no sleep, no further
\* call) and generate has raised a RuntimeError caused by that error.
C3_FatalImmediately ==
    \A j \in 1..Len(gen_trace) :
        (gen_trace[j].ev = "call" /\ gen_trace[j].what \in FatalErrors)
        => /\ j = Len(gen_trace)
           /\ gen_result = [status |-> "raised", type |-> "RuntimeError",
                            cause |-> [kind |-> gen_trace[j].what,
                                       at |-> Len(Calls)]]

\* C3 witness: a fatal error after an earlier retryable failure.
C3_Witness ==
    /\ Len(Calls) = 2
    /\ Calls[1].what \in RetryableErrors
    /\ Calls[2].what \in FatalErrors
    /\ gen_result.status = "raised"

(***************************************************************************)
(* ProviderRegistry.select_best_provider: cost-ranked selection.           *)
(***************************************************************************)
MaxProviders == 3       \* the registry holds up to MaxProviders providers

ProviderNames == {"A", "B", "C", "D"}
\* register_provider(provider_name, cost)
Costs == {20, 55, 90}
\* what provider_class(**kwargs) followed by validate_config() does:
\* the constructor raises, validate_config() finds no API key, its client
\* check fails, or the provider is usable
Healths == {"ok", "no_api_key", "client_check_failed", "init_error"}

\* _PROVIDER_REGISTRY: one entry per name, in insertion order
Registries ==
    {r \in UNION {[1..n -> [name : ProviderNames, cost : Costs]] : n \in 0..MaxProviders} :
        \A i, j \in 1..Len(r) : i # j => r[i].name # r[j].name}

RECURSIVE InsertByCost_Unstable(_, _)
InsertByCost_Unstable(x, s) ==
    IF s = <<>> THEN <<x>>
    ELSE IF s[1].cost < x.cost THEN <<s[1]>> \o InsertByCost_Unstable(x, Tail(s))
    ELSE <<x>> \o s

\* x goes after every element that does not cost more: the sort is stable
RECURSIVE InsertByCost(_, _)
InsertByCost(x, s) ==
    IF s = <<>> THEN <<x>>
    ELSE IF s[1].cost <= x.cost THEN <<s[1]>> \o InsertByCost(x, Tail(s))
    ELSE <<x>> \o s

RECURSIVE SortedLoop(_, _)
SortedLoop(reg, acc) ==
    IF reg = <<>> THEN acc ELSE SortedLoop(Tail(reg), InsertByCost(reg[1], acc))

SortedByCost_RegistrationOrder(reg) == reg

\* sorted(_PROVIDER_REGISTRY.items(), key=lambda item: item[1].cost)
SortedByCost(reg) == SortedLoop(reg, <<>>)

\* provider.validate_config()
ValidateConfig(h) == h = "ok"

\* the exception raised when the loop ends without a provider; "enumerates"
\* is the list of candidates and reasons its message carries
NoSuitableProvider ==
    [status |-> "raised", type |-> "ValueError",
     message |-> "No suitable LLM provider found and properly configured",
     enumerates |-> <<>>]

InitReg ==
    /\ registry \in Registries
    /\ health \in [{registry[i].name : i \in 1..Len(registry)} -> Healths]
    /\ sel_tried = <<>>
    /\ sel_log = <<>>
    /\ sel_result = Pending
    /\ RegExtraIdle
    /\ GenIdle /\ RmIdle /\ FmtIdle /\ MdIdle /\ CvIdle

\* One iteration of "for provider_name, provider_info in sorted_providers"
SelTry ==
    /\ sel_result = Pending
    /\ Len(sel_tried) < Len(SortedByCost(registry))
    /\ LET cand == SortedByCost(registry)[Len(sel_tried) + 1]
           h == health[cand.name]
       IN /\ sel_tried' = Append(sel_tried, cand.name)
          /\ IF h = "init_error" THEN
                /\ sel_log' = Append(sel_log, [name |-> cand.name,
                                               msg |-> "Failed to initialize provider"])
                /\ UNCHANGED sel_result
             ELSE IF ValidateConfig(h) THEN
                /\ sel_log' = Append(sel_log, [name |-> cand.name,
                                               msg |-> "Selected provider"])
                /\ sel_result' = [status |-> "returned", provider |-> cand.name]
             ELSE
                /\ sel_log' = Append(sel_log, [name |-> cand.name,
                                               msg |-> "is not properly configured"])
                /\ UNCHANGED sel_result
    /\ UNCHANGED <<registry, health, regExtra>>
    /\ UNCHANGED <<genVars, rmVars, fmtVars, mdVars, cvVars>>

\* raise ValueError("No suitable LLM provider found and properly configured")
SelFail ==
    /\ sel_result = Pending
    /\ Len(sel_tried) = Len(SortedByCost(registry))
    /\ sel_result' = NoSuitableProvider
    /\ UNCHANGED <<registry, health, sel_tried, sel_log, regExtra>>
    /\ UNCHANGED <<genVars, rmVars, fmtVars, mdVars, cvVars>>

NextReg == SelTry \/ SelFail

SpecReg == InitReg /\ [][NextReg]_vars

(***************************************************************************)
(* Claims about select_best_provider.                                      *)
(***************************************************************************)
RegNames == {registry[i].name : i \in 1..Len(registry)}
RegIndex(n) == CHOOSE i \in 1..Len(registry) : registry[i].name = n
RegCost(n) == registry[RegIndex(n)].cost

\* provider m comes before provider n: cheaper, or as cheap and registered
\* earlier
Before(m, n) ==
    \/ RegCost(m) < RegCost(n)
    \/ RegCost(m) = RegCost(n) /\ RegIndex(m) < RegIndex(n)

\* C4: select_best_provider returns the usable provider that comes first in
\* ascending cost order, equal costs in registration order; the candidates
\* tried are exactly the ones before it, and none after it is tried.
C4_SelectsCheapestUsable ==
    sel_result.status = "returned" =>
        LET p == sel_result.provider IN
        /\ p \in RegNames
        /\ health[p] = "ok"
        /\ \A m \in RegNames : (health[m] = "ok" /\ m # p) => Before(p, m)
        /\ Range(sel_tried) = {m \in RegNames : m = p \/ Before(m, p)}
        /\ Len(sel_tried) = Cardinality(Range(sel_tried))
        /\ sel_tried[Len(sel_tried)] = p

\* C4 witness: costs A:90, B:20, C:55, only B and C usable: B is returned
\* although A was registered first; C is never constructed.
C4_Witness ==
    /\ registry = <<[name |-> "A", cost |-> 90], [name |-> "B", cost |-> 20],
                    [name |-> "C", cost |-> 55]>>
    /\ health["A"] = "no_api_key" /\ health["B"] = "ok" /\ health["C"] = "ok"
    /\ sel_result = [status |-> "returned", provider |-> "B"]
    /\ sel_tried = <<"B">>

\* C4 witness, second case: two usable providers of equal cost, the one
\* registered first is returned after a cheaper unusable one was skipped.
C4_TieWitness ==
    /\ Len(registry) = 3
    /\ registry[1].cost = registry[2].cost
    /\ registry[3].cost < registry[1].cost
    /\ health[registry[3].name] = "init_error"
    /\ health[registry[1].name] = "ok" /\ health[registry[2].name] = "ok"
    /\ sel_result = [status |-> "returned", provider |-> registry[1].name]

\* selection is over and every candidate failed
SelectionFailed == sel_result.status = "raised"

\* C5 as stated: the error raised when no provider validates enumerates
\* every candidate tried with the reason it failed.
C5_ErrorEnumeratesCandidates ==
    SelectionFailed =>
        \A n \in RegNames :
            \E i \in 1..Len(sel_result.enumerates) :
                /\ sel_result.enumerates[i].name = n
                /\ sel_result.enumerates[i].reason = health[n]

\* C5 amended: when no registered provider validates, select_best_provider
\* raises a ValueError with one fixed message that names no candidate and
\* no reason; every provider was tried once, in cost order (equal costs in
\* registration order), and each failure went to the debug log only, as
\* "Failed to initialize" or "not properly configured".
C5_GenericErrorCandidatesLogged ==
    SelectionFailed =>
        /\ sel_result = [status |-> "raised", type |-> "ValueError",
                         message |-> "No suitable LLM provider found and properly configured",
                         enumerates |-> <<>>]
        /\ \A n \in RegNames : health[n] # "ok"
        /\ Len(sel_tried) = Len(registry)
        /\ Range(sel_tried) = RegNames
        /\ \A i, j \in 1..Len(sel_tried) : i < j => Before(sel_tried[i], sel_tried[j])
        /\ sel_log = [i \in 1..Len(registry) |->
                        [name |-> sel_tried[i],
                         msg |-> IF health[sel_tried[i]] = "init_error"
                                 THEN "Failed to initialize provider"
                                 ELSE "is not properly configured"]]

\* C5 witness: three providers, one without a key, one whose client check
\* fails, one whose constructor raises; the selection has raised.
C5_Witness ==
    /\ Len(registry) = 3
    /\ {health[n] : n \in RegNames} = {"no_api_key", "client_check_failed", "init_error"}
    /\ SelectionFailed
    /\ Len(sel_log) = 3

(***************************************************************************)
(* LiteLLMClient.__init__ and _resolve_model: model-index resolution.      *)
(***************************************************************************)
MaxModels == 3          \* get_available_models() yields up to MaxModels names

ModelNames == {"m0", "m1", "m2", "m3"}
ModelIndexes == (0 - MaxModels - 2)..(MaxModels + 2)

\* the lists the provider can report, without repetitions
ModelLists ==
    {l \in UNION {[1..n -> ModelNames] : n \in 0..MaxModels} :
        \A i, j \in 1..Len(l) : i # j => l[i] # l[j]}

\* the model argument of __init__: a name, an index, another type, or None
\* with the provider's entry of PROVIDER_DEFAULT_MODELS (a name, an index,
\* or no entry)
ModelArgs ==
    [type : {"str"}, name : {"gpt-4", "m1"}, index : {0}]
    \cup [type : {"int"}, name : {""}, index : ModelIndexes]
    \cup [type : {"float"}, name : {""}, index : {0}]
    \cup [type : {"default_str"}, name : {"gpt-4o-mini"}, index : {0}]
    \cup [type : {"default_int"}, name : {""}, index : {0}]
    \cup [type : {"no_default"}, name : {""}, index : {0}]

\* get_available_models(): the list, or [] when fetching it raised
GetAvailableModels(src) == IF src.raises THEN <<>> ELSE src.models

IndexError == [ok |-> FALSE, value |-> ""]

PyIndex_NoNegative(l, i) ==
    IF 0 <= i /\ i < Len(l) THEN [ok |-> TRUE, value |-> l[i + 1]]
    ELSE IndexError

\* available_models[model]: Python list indexing
PyIndex(l, i) ==
    IF 0 <= i /\ i < Len(l) THEN [ok |-> TRUE, value |-> l[i + 1]]
    ELSE IF 0 - Len(l) <= i /\ i < 0 THEN [ok |-> TRUE, value |-> l[Len(l) + i + 1]]
    ELSE IndexError

Raised(t) == [status |-> "raised", type |-> t]
Returned(v) == [status |-> "returned", value |-> v]

\* _resolve_model(model): the result and the number of model-list fetches
ResolveModel(kind, name, index, src) ==
    IF kind = "str" THEN [result |-> Returned(name), fetched |-> 0]
    ELSE IF kind = "int" THEN
        LET available_models == GetAvailableModels(src) IN
        IF available_models = <<>>
        THEN [result |-> Raised("ValueError"), fetched |-> 1]
        ELSE IF PyIndex(available_models, index).ok
             THEN [result |-> Returned(PyIndex(available_models, index).value),
                   fetched |-> 1]
             ELSE [result |-> Raised("ValueError"), fetched |-> 1]
    ELSE [result |-> Raised("ValueError"), fetched |-> 0]

InitRm ==
    /\ rm_model \in ModelArgs
    /\ rm_available \in [raises : BOOLEAN, models : ModelLists]
    /\ rm_fetched = 0
    /\ rm_result = Pending
    /\ rm_client = [built |-> FALSE]
    /\ AkIdle
    /\ GenIdle /\ RegIdle /\ FmtIdle /\ MdIdle /\ CvIdle

\* LiteLLMClient(provider, model, ...): "Determine model to use"; the client
\* exists only when no exception left __init__
RmConstruct ==
    /\ rm_result = Pending
    /\ LET r == IF rm_model.type = "no_default"
                THEN [result |-> Raised("ValueError"), fetched |-> 0]
                ELSE IF rm_model.type = "default_str"
                THEN ResolveModel("str", rm_model.name, 0, rm_available)
                ELSE IF rm_model.type = "default_int"
                THEN ResolveModel("int", "", rm_model.index, rm_available)
                ELSE ResolveModel(rm_model.type, rm_model.name, rm_model.index,
                                  rm_available)
       IN /\ rm_result' = r.result
          /\ rm_fetched' = r.fetched
          /\ rm_client' = IF r.result.status = "returned"
                          THEN [built |-> TRUE, model |-> r.result.value]
                          ELSE [built |-> FALSE]
    /\ UNCHANGED <<rm_model, rm_available, ak_provider, ak_explicit, ak_env, ak_key>>
    /\ UNCHANGED <<genVars, regVars, fmtVars, mdVars, cvVars>>

NextRm == RmConstruct

SpecRm == InitRm /\ [][NextRm]_vars

(***************************************************************************)
(* Claim about _resolve_model.                                             *)
(***************************************************************************)
\* the list get_available_models() hands to _resolve_model
AvailableList == IF rm_available.raises THEN <<>> ELSE rm_available.models

\* C6: a string model is returned unchanged without fetching the model
\* list; an integer index i against a list of length n > 0 resolves to
\* element i when 0 <= i < n and to element n+i when -n <= i < 0; every other
\* index, and every index when the list is empty or unavailable, raises and
\* no client is constructed.
C6_ResolveModel ==
    rm_result.status # "pending" =>
        LET n == Len(AvailableList)
            i == rm_model.index
        IN
        /\ rm_model.type = "str" =>
              /\ rm_result = [status |-> "returned", value |-> rm_model.name]
              /\ rm_fetched = 0
              /\ rm_client = [built |-> TRUE, model |-> rm_model.name]
        /\ (rm_model.type = "int" /\ n > 0 /\ 0 <= i /\ i < n) =>
              /\ rm_result = [status |-> "returned", value |-> AvailableList[i + 1]]
              /\ rm_client = [built |-> TRUE, model |-> AvailableList[i + 1]]
        /\ (rm_model.type = "int" /\ n > 0 /\ 0 - n <= i /\ i < 0) =>
              /\ rm_result = [status |-> "returned", value |-> AvailableList[n + i + 1]]
              /\ rm_client = [built |-> TRUE, model |-> AvailableList[n + i + 1]]
        /\ (rm_model.type = "int" /\ (n = 0 \/ i >= n \/ i < 0 - n)) =>
              /\ rm_result = [status |-> "raised", type |-> "ValueError"]
              /\ rm_client = [built |-> FALSE]

\* C6 witness: models [m0, m1, m2], index -1 has resolved to m2.
C6_Witness ==
    /\ rm_available = [raises |-> FALSE, models |-> <<"m0", "m1", "m2">>]
    /\ rm_model = [type |-> "int", name |-> "", index |-> -1]
    /\ rm_result = [status |-> "returned", value |-> "m2"]

\* C6 witness, second case: models [m0, m1, m2], index 5 has raised.
C6_OutOfRangeWitness ==
    /\ rm_available = [raises |-> FALSE, models |-> <<"m0", "m1", "m2">>]
    /\ rm_model = [type |-> "int", name |-> "", index |-> 5]
    /\ rm_result = [status |-> "raised", type |-> "ValueError"]
    /\ rm_client = [built |-> FALSE]

(***************************************************************************)
(* determine_config_format and parse_config_string: the format cascade.    *)
(*                                                                         *)
(* A text is known to the cascade only through what each parser makes of   *)
(* it, so a text is modelled by those four answers: the parsed value (a    *)
(* dict, a list or a scalar, identified by a number) or the parser's       *)
(* decode error.  Two parsers may read different values out of one text.   *)
(***************************************************************************)
MaxVals == 2            \* distinct parsed values per kind

DecodeError == [kind |-> "error", val |-> 0]
Parsed(kinds) == [kind : kinds, val : 1..MaxVals]
EmptyDict == [kind |-> "dict", val |-> 1]
NoneScalar == [kind |-> "scalar", val |-> 1]

\* orjson.loads, toon_format.decode and yaml.safe_load yield any value or
\* raise their decode error; toml.loads yields a dict or raises.  An empty or
\* whitespace-only text is no JSON document, is the empty TOML document and
\* is the YAML null.
Texts ==
    [blank : {FALSE},
     json : Parsed({"dict", "list", "scalar"}) \cup {DecodeError},
     toml : Parsed({"dict"}) \cup {DecodeError},
     toon : Parsed({"dict", "list", "scalar"}) \cup {DecodeError},
     yaml : Parsed({"dict", "list", "scalar"}) \cup {DecodeError}]
    \cup
    [blank : {TRUE},
     json : {DecodeError},
     toml : {EmptyDict},
     toon : Parsed({"dict", "list", "scalar"}) \cup {DecodeError},
     yaml : {NoneScalar}]

\* isinstance(result, (dict, list))
IsContainer(r) == r.kind \in {"dict", "list"}

DetermineConfigFormat_YamlBeforeToml(c) ==
    IF c.blank THEN "text"
    ELSE IF IsContainer(c.json) THEN "json"
    ELSE IF IsContainer(c.yaml) THEN "yaml"
    ELSE IF c.toml.kind # "error" THEN "toml"
    ELSE IF IsContainer(c.toon) THEN "toon"
    ELSE "text"

\* determine_config_format(cfg)
DetermineConfigFormat(c) ==
    IF c.blank THEN "text"
    ELSE IF IsContainer(c.json) THEN "json"
    ELSE IF c.toml.kind # "error" THEN "toml"
    ELSE IF IsContainer(c.toon) THEN "toon"
    ELSE IF IsContainer(c.yaml) THEN "yaml"
    ELSE "text"

None == [status |-> "none"]
Value(r) == [status |-> "value", kind |-> r.kind, val |-> r.val]

ParseConfigString_YamlUnchecked(c) ==
    IF c.blank THEN None
    ELSE IF IsContainer(c.json) THEN Value(c.json)
    ELSE IF c.toml.kind = "dict" THEN Value(c.toml)
    ELSE IF c.yaml.kind # "error" THEN Value(c.yaml)
    ELSE None

\* parse_config_string(content)
ParseConfigString(c) ==
    IF c.blank THEN None
    ELSE IF IsContainer(c.json) THEN Value(c.json)
    ELSE IF c.toml.kind = "dict" THEN Value(c.toml)
    ELSE IF IsContainer(c.yaml) THEN Value(c.yaml)
    ELSE None

InitFmt ==
    /\ cfg \in Texts
    /\ fmt_result = "pending"
    /\ parse_result = [status |-> "pending"]
    /\ RtIdle
    /\ GenIdle /\ RegIdle /\ RmIdle /\ MdIdle /\ CvIdle

Determine ==
    /\ fmt_result = "pending"
    /\ fmt_result' = DetermineConfigFormat(cfg)
    /\ UNCHANGED <<cfg, parse_result, rt_value, rt_dialect, rt_out, rt_parsed>>
    /\ UNCHANGED <<genVars, regVars, rmVars, mdVars, cvVars>>

Parse ==
    /\ parse_result.status = "pending"
    /\ parse_result' = ParseConfigString(cfg)
    /\ UNCHANGED <<cfg, fmt_result, rt_value, rt_dialect, rt_out, rt_parsed>>
    /\ UNCHANGED <<genVars, regVars, rmVars, mdVars, cvVars>>

NextFmt == Determine \/ Parse

SpecFmt == InitFmt /\ [][NextFmt]_vars

(***************************************************************************)
(* Claims about the format cascade.                                        *)
(***************************************************************************)
Accepts(stage) ==
    CASE stage = "json" -> cfg.json.kind \in {"dict", "list"}
      [] stage = "toml" -> cfg.toml.kind # "error"
      [] stage = "toon" -> cfg.toon.kind \in {"dict", "list"}
      [] stage = "yaml" -> cfg.yaml.kind \in {"dict", "list"}

CascadeOrder == <<"json", "toml", "toon", "yaml">>

C7_ScalarWitness ==
    /\ cfg.json.kind = "scalar"
    /\ cfg.toml = DecodeError
    /\ cfg.toon.kind = "scalar" /\ cfg.yaml.kind = "scalar"
    /\ fmt_result = "text"

BothDone == fmt_result # "pending" /\ parse_result.status # "pending"

StageValue(stage) ==
    CASE stage = "json" -> cfg.json
      [] stage = "toml" -> cfg.toml
      [] stage = "toon" -> cfg.toon
      [] stage = "yaml" -> cfg.yaml

\* C8 as stated: parse_config_string returns a container exactly when
\* determine_config_format is not TEXT, and that container is the value
\* parsed by the stage determine_config_format selected.
C8_SameCascade ==
    BothDone =>
        /\ parse_result.status = "value" <=> fmt_result # "text"
        /\ fmt_result # "text" =>
              /\ parse_result.status = "value"
              /\ parse_result.kind = StageValue(fmt_result).kind
              /\ parse_result.val = StageValue(fmt_result).val

\* C8 amended: parse_config_string runs the cascade JSON, TOML, YAML, with
\* no TOON stage.  It returns a container exactly when the format is JSON,
\* TOML or YAML, or is TOON and the YAML parser also yields a container;
\* for JSON, TOML and YAML the container is the value of the selected
\* stage, for TOON it is the YAML parser's value, whatever the TOON parser
\* read.
C8_CascadeWithoutToon ==
    BothDone =>
        /\ parse_result.status \in {"value", "none"}
        /\ parse_result.status = "value" <=>
              \/ fmt_result \in {"json", "toml", "yaml"}
              \/ fmt_result = "toon" /\ cfg.yaml.kind \in {"dict", "list"}
        /\ fmt_result \in {"json", "toml", "yaml"} =>
              /\ parse_result.status = "value"
              /\ parse_result.kind = StageValue(fmt_result).kind
              /\ parse_result.val = StageValue(fmt_result).val
        /\ (fmt_result = "toon" /\ parse_result.status = "value") =>
              /\ parse_result.kind = cfg.yaml.kind
              /\ parse_result.val = cfg.yaml.val

\* C8 witness: a text classified TOON (a tabular array, say) for which
\* parse_config_string returned what the YAML parser read, a different
\* value.
C8_Witness ==
    /\ BothDone
    /\ fmt_result = "toon"
    /\ cfg.yaml.kind = "dict"
    /\ cfg.toon # cfg.yaml
    /\ parse_result = [status |-> "value", kind |-> cfg.yaml.kind, val |-> cfg.yaml.val]

(***************************************************************************)
(* merge_dicts: the recursive (Update) merge.                              *)
(*                                                                         *)
(* Dicts are objects with identity: heap[id] is the dict with reference    *)
(* id, a function from its keys to values, and a value is an integer or a  *)
(* reference to another dict.  heap[1] is the base argument, heap[2] the   *)
(* override argument, heap[3] and heap[4] are dicts the arguments may hold *)
(* (both may hold the same one), and heap[3] may itself hold heap[4].      *)
(***************************************************************************)
MaxLeaf == 2            \* integer values are 1 .. MaxLeaf

TopKeys == {"a", "b"}
NestedKeys == {"x", "y"}

IntVal(n) == [t |-> "int", v |-> n]
RefVal(id) == [t |-> "ref", v |-> id]

\* the dicts over the keys ks with values from vs
DictsOver(ks, vs) == UNION {[d -> vs] : d \in SUBSET ks}

LeafVals == {IntVal(n) : n \in 1..MaxLeaf}

GeneratedHeaps ==
    {<<b, o, m, n>> :
        b \in DictsOver(TopKeys, LeafVals \cup {RefVal(3), RefVal(4)}),
        o \in DictsOver(TopKeys, LeafVals \cup {RefVal(3), RefVal(4)}),
        m \in DictsOver(NestedKeys, LeafVals \cup {RefVal(4)}),
        n \in DictsOver(NestedKeys, LeafVals)}

\* existing {a: {x: 1, y: 2}, b: 5} and new {a: {y: 9, z: 3}, c: 7}
ExampleHeap ==
    << [k \in {"a", "b"} |-> IF k = "a" THEN RefVal(3) ELSE IntVal(5)],
       [k \in {"a", "c"} |-> IF k = "a" THEN RefVal(4) ELSE IntVal(7)],
       [k \in {"x", "y"} |-> IF k = "x" THEN IntVal(1) ELSE IntVal(2)],
       [k \in {"y", "z"} |-> IF k = "y" THEN IntVal(9) ELSE IntVal(3)] >>

\* result[key] = value
Put(d, key, value) == [k \in DOMAIN d \cup {key} |-> IF k = key THEN value ELSE d[k]]

RECURSIVE MergeDicts(_, _, _)
RECURSIVE MergeItems(_, _, _, _)
RECURSIVE MergeItems_Shallow(_, _, _, _)

MergeItems_Shallow(h, result, override, keys) ==
    IF keys = {} THEN [heap |-> h, ref |-> result]
    ELSE LET key == CHOOSE k \in keys : TRUE
             value == h[override][key]
         IN MergeItems_Shallow([h EXCEPT ![result] = Put(@, key, value)],
                               result, override, keys \ {key})

\* for key, value in override.items(): the items not yet visited are keys
MergeItems(h, result, override, keys) ==
    IF keys = {} THEN [heap |-> h, ref |-> result]
    ELSE LET key == CHOOSE k \in keys : TRUE
             value == h[override][key]
         IN IF /\ key \in DOMAIN h[result]
               /\ h[result][key].t = "ref"
               /\ value.t = "ref"
            THEN LET sub == MergeDicts(h, h[result][key].v, value.v)
                 IN MergeItems([sub.heap EXCEPT ![result] = Put(@, key, RefVal(sub.ref))],
                               result, override, keys \ {key})
            ELSE MergeItems([h EXCEPT ![result] = Put(@, key, value)],
                            result, override, keys \ {key})

MergeDicts_FromEmpty(h, base, override) ==
    MergeItems(Append(h, <<>>), Len(h) + 1, override, DOMAIN h[override])

\* merge_dicts(base, override): result = base.copy() is a new dict object
MergeDicts(h, base, override) ==
    MergeItems(Append(h, h[base]), Len(h) + 1, override, DOMAIN h[override])

InitMd ==
    /\ heap \in GeneratedHeaps \cup {ExampleHeap}
    /\ md_base = 1
    /\ md_override = 2
    /\ md_result = 0
    /\ md_heap0 = heap
    /\ md_replaced = Pending
    /\ GenIdle /\ RegIdle /\ RmIdle /\ FmtIdle /\ CvIdle

MergeCall ==
    /\ md_result = 0
    /\ LET r == MergeDicts(heap, md_base, md_override)
       IN /\ heap' = r.heap
          /\ md_result' = r.ref
    /\ UNCHANGED <<md_base, md_override, md_heap0, md_replaced>>
    /\ UNCHANGED <<genVars, regVars, rmVars, fmtVars, cvVars>>

NextMd == MergeCall

SpecMd == InitMd /\ [][NextMd]_vars

(***************************************************************************)
(* Claim about merge_dicts.                                                *)
(***************************************************************************)
\* the content of a value, without identities: an integer, or a dict of
\* contents
RECURSIVE Content(_, _)
Content(h, value) ==
    IF value.t = "int" THEN [t |-> "int", n |-> value.v, d |-> <<>>]
    ELSE [t |-> "dict", n |-> 0,
          d |-> [k \in DOMAIN h[value.v] |-> Content(h, h[value.v][k])]]

\* r is the merge of b and o as the claim words it
RECURSIVE IsUpdateMerge(_, _, _)
IsUpdateMerge(r, b, o) ==
    /\ DOMAIN r.d = DOMAIN b.d \cup DOMAIN o.d
    /\ \A k \in DOMAIN r.d :
          IF k \notin DOMAIN o.d THEN r.d[k] = b.d[k]
          ELSE IF k \notin DOMAIN b.d THEN r.d[k] = o.d[k]
          ELSE IF b.d[k].t = "dict" /\ o.d[k].t = "dict"
               THEN r.d[k].t = "dict" /\ IsUpdateMerge(r.d[k], b.d[k], o.d[k])
               ELSE r.d[k] = o.d[k]

\* C9: merge_dicts(existing, new) returns a dict with exactly the keys of
\* both; a key of one side only keeps that side's value; a key of both whose
\* values are both mappings holds their recursive merge; any other key of
\* both holds new's value; and no dict that existed before the call, the
\* arguments included, is modified.
C9_UpdateMerge ==
    md_result # 0 =>
        /\ IsUpdateMerge(Content(heap, RefVal(md_result)),
                         Content(md_heap0, RefVal(md_base)),
                         Content(md_heap0, RefVal(md_override)))
        /\ md_result \notin 1..Len(md_heap0)
        /\ \A id \in 1..Len(md_heap0) : heap[id] = md_heap0[id]

\* C9 witness: {a: {x: 1, y: 2}, b: 5} merged with {a: {y: 9, z: 3}, c: 7}
\* has given {a: {x: 1, y: 9, z: 3}, b: 5, c: 7}.
C9_Witness ==
    /\ md_heap0 = ExampleHeap
    /\ md_result # 0
    /\ DOMAIN heap[md_result] = {"a", "b", "c"}
    /\ heap[md_result]["b"] = IntVal(5)
    /\ heap[md_result]["c"] = IntVal(7)
    /\ heap[md_result]["a"].t = "ref"
    /\ heap[heap[md_result]["a"].v] =
          [k \in {"x", "y", "z"} |->
              IF k = "x" THEN IntVal(1) ELSE IF k = "y" THEN IntVal(9) ELSE IntVal(3)]

\* C9 witness, second case: the merge recursed twice, through a dict that
\* both arguments hold and that holds a dict itself.
C9_DeepWitness ==
    /\ md_result # 0
    /\ "a" \in DOMAIN md_heap0[1] /\ md_heap0[1]["a"] = RefVal(3)
    /\ "a" \in DOMAIN md_heap0[2] /\ md_heap0[2]["a"] = RefVal(3)
    /\ "x" \in DOMAIN md_heap0[3] /\ md_heap0[3]["x"] = RefVal(4)
    /\ Len(heap) = Len(md_heap0) + 3

(***************************************************************************)
(* convert: the command, from its argument checks to the write of the      *)
(* destination, with the merge against an existing destination.            *)
(*                                                                         *)
(* A file or a generated text is its serialization format and the value    *)
(* it holds; json.loads accepts the texts of format "json" only.  Values   *)
(* are integers, lists (known by their length; their items are integers)   *)
(* and dicts of values.                                                    *)
(***************************************************************************)
MaxCvLeaf == 2          \* integer values in files are 1 .. MaxCvLeaf

CvInt(n) == [t |-> "int", n |-> n, d |-> <<>>]
CvList(len) == [t |-> "list", n |-> len, d |-> <<>>]
CvDict(f) == [t |-> "dict", n |-> 0, d |-> f]

CvInts == {CvInt(n) : n \in 1..MaxCvLeaf}
CvNested == {CvDict(f) : f \in DictsOver(NestedKeys, CvInts)}
\* root mappings: key "a" holds an integer or a nested mapping, key "b" an
\* integer
CvDicts ==
    {CvDict(f) : f \in {g \in DictsOver(TopKeys, CvInts \cup CvNested) :
                            "b" \in DOMAIN g => g["b"].t = "int"}}

\* existing {a: {x: 1, y: 2}, b: 5}
ExampleExisting ==
    CvDict([k \in {"a", "b"} |->
        IF k = "a"
        THEN CvDict([j \in {"x", "y"} |-> IF j = "x" THEN CvInt(1) ELSE CvInt(2)])
        ELSE CvInt(5)])

\* new {a: {y: 9, z: 3}, c: 7}
ExampleNew ==
    CvDict([k \in {"a", "c"} |->
        IF k = "a"
        THEN CvDict([j \in {"y", "z"} |-> IF j = "y" THEN CvInt(9) ELSE CvInt(3)])
        ELSE CvInt(7)])

JsonText(root) == [fmt |-> "json", root |-> root]
\* texts json.loads rejects: a YAML or a TOML document holding a mapping
\* (YAML: or a sequence), and prose
NonJsonTexts ==
    {[fmt |-> f, root |-> CvDict([k \in {"a"} |-> CvInt(1)])] : f \in {"yaml", "toml"}}
    \cup {[fmt |-> "yaml", root |-> CvList(1)], [fmt |-> "text", root |-> CvInt(0)]}
\* a file that was opened for writing and not written to its end
PartialText == [fmt |-> "partial", root |-> CvInt(0)]

NonDictRoots == {CvList(0), CvList(1), CvInt(1)}

\* what the destination path holds before the command runs: no file, in a
\* directory that exists or not, or a file
Destinations ==
    {[exists |-> FALSE, parent |-> p] : p \in BOOLEAN}
    \cup {[exists |-> TRUE, parent |-> TRUE, text |-> x] :
            x \in {JsonText(r) : r \in CvDicts \cup NonDictRoots \cup {ExampleExisting}}
                  \cup NonJsonTexts}

\* what ConfigTransformer.transform can return
Generated ==
    {JsonText(r) : r \in CvDicts \cup NonDictRoots \cup {ExampleNew}} \cup NonJsonTexts

\* --output-action as typed
OutputActions == {"overwrite", "skip", "merge", "MERGE", "replace", "update"}

Lower_AsTyped(a) == a

\* action.lower()
Lower(a) == IF a = "MERGE" THEN "merge" ELSE a

\* VALID_OUTPUT_ACTIONS = {action.value for action in OutputAction}
VALID_OUTPUT_ACTIONS == {"overwrite", "skip", "merge"}

ValidateOutputAction_AcceptsAll(a) == TRUE

\* validate_output_action(action)
ValidateOutputAction(a) == Lower(a) \in VALID_OUTPUT_ACTIONS

\* the other arguments: an input source is given; interactive mode and the
\* answer to its confirmation; the target format, which in interactive mode
\* is prompted for when absent, is absent, supported or unsupported; an
\* output path is given; --verbose
Options ==
    {o \in [read : {TRUE}, input : BOOLEAN, interactive : BOOLEAN, confirm : BOOLEAN,
            format : {"none", "valid", "invalid"}, output : BOOLEAN,
            verbose : BOOLEAN] :
        /\ o.interactive => o.format # "none"
        /\ ~o.interactive => o.confirm}

\* "output" once the checks are passed: the interactive mode asks for a path
\* when none is given, and a target format brings its default path
EffectiveOutput(o) == o.output \/ o.interactive \/ o.format # "none"

OuterExcept_ExitsZero(exc) == IF exc = "KeyboardInterrupt" THEN 130 ELSE 0

\* the handlers that close convert(): except KeyboardInterrupt exits 130,
\* except Exception exits 1; typer.Exit is an Exception (click's Exit
\* derives from RuntimeError), so an Exit raised inside the try block is
\* caught there as well
OuterExcept(exc) == IF exc = "KeyboardInterrupt" THEN 130 ELSE 1

DictUpdate_ExistingWins(e, n) ==
    [k \in DOMAIN e \cup DOMAIN n |-> IF k \in DOMAIN e THEN e[k] ELSE n[k]]

\* existing_data.update(new_data) for two dicts
DictUpdate(e, n) ==
    [k \in DOMAIN e \cup DOMAIN n |-> IF k \in DOMAIN n THEN n[k] ELSE e[k]]

MergeIntoExisting_NoTypeCheck(existing, new) ==
    IF existing.fmt # "json" THEN [ok |-> FALSE, exc |-> "JSONDecodeError"]
    ELSE IF new.fmt # "json" THEN [ok |-> FALSE, exc |-> "JSONDecodeError"]
    ELSE IF existing.root.t # "dict" THEN [ok |-> TRUE, text |-> new]
    ELSE IF new.root.t = "dict"
         THEN [ok |-> TRUE,
               text |-> JsonText(CvDict(DictUpdate(existing.root.d, new.root.d)))]
    ELSE IF new.root.t = "list" /\ new.root.n = 0
         THEN [ok |-> TRUE, text |-> JsonText(existing.root)]
    ELSE [ok |-> FALSE, exc |-> "TypeError"]

\* case "merge": json.loads of both texts, update, json.dumps; an
\* exception on the way is reported as ok = FALSE with its name
MergeIntoExisting(existing, new) ==
    IF existing.fmt # "json" THEN [ok |-> FALSE, exc |-> "JSONDecodeError"]
    ELSE IF new.fmt # "json" THEN [ok |-> FALSE, exc |-> "JSONDecodeError"]
    ELSE IF existing.root.t # "dict" THEN [ok |-> FALSE, exc |-> "AttributeError"]
    ELSE IF new.root.t = "dict"
         THEN [ok |-> TRUE,
               text |-> JsonText(CvDict(DictUpdate(existing.root.d, new.root.d)))]
    ELSE IF new.root.t = "list" /\ new.root.n = 0
         THEN [ok |-> TRUE, text |-> JsonText(existing.root)]  \* nothing to add
    ELSE [ok |-> FALSE, exc |-> "TypeError"]

InitCv ==
    /\ cv_pc = "start"
    /\ cv_action \in OutputActions
    /\ cv_dest0 \in Destinations
    /\ cv_dest = cv_dest0
    /\ cv_new = [fmt |-> "none"]
    /\ cv_opts = [read |-> FALSE]
    /\ cv_result = [fmt |-> "none"]
    /\ cv_calls = 0
    /\ cv_console = <<>>
    /\ cv_exc = NoExc
    /\ cv_exit = -1
    /\ GenIdle /\ RegIdle /\ RmIdle /\ FmtIdle /\ MdIdle

\* what the closing handler prints
HandlerMessage(exc) ==
    IF exc = "KeyboardInterrupt" THEN "Conversion cancelled by user." ELSE "Error:"

InnerExcept_CatchesInterrupt(exc) == "Exit"

\* lines 151-153: the handler of the inner try block prints and raises
\* typer.Exit(1) for an Exception; a KeyboardInterrupt passes through
InnerExcept(exc) == IF exc = "KeyboardInterrupt" THEN exc ELSE "Exit"

\* convert() returns, or ends in the handlers of lines 157-162
CvEnd(code, exc, printed) ==
    /\ cv_pc' = "done"
    /\ cv_exit' = code
    /\ cv_exc' = exc
    /\ cv_console' = cv_console \o printed

\* an exception rises outside the inner try block
CvRaise(exc, printed) ==
    CvEnd(OuterExcept(exc), [name |-> exc, at |-> cv_pc],
          printed \o <<HandlerMessage(exc)>>)

\* an exception rises inside the inner try block
CvRaiseInner(exc) ==
    CvEnd(OuterExcept(InnerExcept(exc)), [name |-> exc, at |-> cv_pc],
          (IF InnerExcept(exc) = exc THEN <<>> ELSE <<"Error during conversion:">>)
          \o <<HandlerMessage(InnerExcept(exc))>>)

\* lines 53-98: the argument checks, each failing one printing its message
\* and raising typer.Exit
CvValidate(o) ==
    /\ cv_pc = "start"
    /\ cv_opts' = [o EXCEPT !.output = EffectiveOutput(o)]
    /\ IF ~o.input
       THEN CvRaise("Exit", <<"Error: Either input file or --input-content must be provided">>)
       ELSE IF o.interactive /\ ~o.confirm
       THEN CvRaise("Exit", <<"Conversion cancelled.">>)
       ELSE IF o.format = "invalid"
       THEN CvRaise("Exit", <<"Error: Invalid format">>)
       ELSE IF ~ValidateOutputAction(cv_action)
       THEN CvRaise("Exit", <<"Error: Invalid output action. Choose from: overwrite, skip, merge">>)
       ELSE /\ cv_pc' = "convert"
            /\ cv_console' = cv_console \o <<"Converting">>
            /\ UNCHANGED <<cv_exc, cv_exit>>
    /\ UNCHANGED <<cv_action, cv_dest, cv_dest0, cv_new, cv_result, cv_calls>>
    /\ UNCHANGED <<genVars, regVars, rmVars, fmtVars, mdVars>>

TransformCalled_NotMade(n) == n

\* the number of ConfigTransformer.transform calls once line 102 has run
TransformCalled(n) == n + 1

\* lines 101-109: result = ConfigTransformer.transform(...) returns
CvTransform(text) ==
    /\ cv_pc = "convert"
    /\ cv_opts.format = "valid"
    /\ cv_calls' = TransformCalled(cv_calls)
    /\ cv_new' = text
    /\ cv_result' = text
    /\ cv_pc' = "reconcile"
    /\ UNCHANGED <<cv_action, cv_dest, cv_dest0, cv_opts, cv_console, cv_exc, cv_exit>>
    /\ UNCHANGED <<genVars, regVars, rmVars, fmtVars, mdVars>>

\* where ConfigTransformer.transform raises: reading the input, creating the
\* provider, building the prompt, generating, validating the output
TransformStages ==
    {"read_input", "create_provider", "build_prompt", "generate", "validate_output"}

\* lines 101-109 and 151-153: ConfigTransformer.transform(...) raises
CvTransformRaises(stage) ==
    /\ cv_pc = "convert"
    /\ cv_opts.format = "valid"
    /\ cv_calls' = TransformCalled(cv_calls)
    /\ LET exc == IF stage = "read_input" THEN "OSError" ELSE "RuntimeError"
       IN CvEnd(OuterExcept(InnerExcept(exc)), [name |-> exc, at |-> stage],
                <<"Error during conversion:", HandlerMessage(InnerExcept(exc))>>)
    /\ UNCHANGED <<cv_action, cv_dest, cv_dest0, cv_new, cv_opts, cv_result>>
    /\ UNCHANGED <<genVars, regVars, rmVars, fmtVars, mdVars>>

\* lines 142-150: no target format; printing the unbound "result" raises
CvNoFormat ==
    /\ cv_pc = "convert"
    /\ cv_opts.format = "none"
    /\ IF cv_opts.output /\ cv_opts.verbose
       THEN CvRaiseInner("UnboundLocalError")
       ELSE CvEnd(0, NoExc, <<"SUCCESS Conversion completed successfully!">>)
    /\ UNCHANGED <<cv_action, cv_dest, cv_dest0, cv_new, cv_opts, cv_result, cv_calls>>
    /\ UNCHANGED <<genVars, regVars, rmVars, fmtVars, mdVars>>

MatchAction_NoSkip(a) ==
    IF Lower(a) = "merge" THEN "merge" ELSE "_"

\* lines 111-124, match output_action.lower(): case "skip", case "merge",
\* case _
MatchAction(a) ==
    IF Lower(a) = "skip" THEN "skip"
    ELSE IF Lower(a) = "merge" THEN "merge"
    ELSE "_"

\* lines 111-124: the destination exists: skip, merge or overwrite
CvReconcile ==
    /\ cv_pc = "reconcile"
    /\ IF cv_opts.output /\ cv_dest.exists THEN
          IF MatchAction(cv_action) = "skip" THEN
               /\ CvEnd(0, NoExc, <<"Skipping conversion: output file already exists">>)
               /\ UNCHANGED cv_result
          ELSE IF MatchAction(cv_action) = "merge" THEN
               LET m == MergeIntoExisting(cv_dest.text, cv_result) IN
               IF m.ok THEN /\ cv_result' = m.text
                            /\ cv_pc' = "write"
                            /\ cv_console' = cv_console \o <<"Merging with existing file">>
                            /\ UNCHANGED <<cv_exc, cv_exit>>
               ELSE /\ cv_pc' = "done"
                    /\ cv_exit' = OuterExcept(InnerExcept(m.exc))
                    /\ cv_exc' = [name |-> m.exc, at |-> cv_pc]
                    /\ cv_console' = cv_console
                           \o <<"Merging with existing file", "Error during conversion:",
                                HandlerMessage("Exit")>>
                    /\ UNCHANGED cv_result
          ELSE /\ cv_pc' = "write"
               /\ cv_console' = cv_console \o <<"Will overwrite existing file">>
               /\ UNCHANGED <<cv_result, cv_exc, cv_exit>>
       ELSE IF cv_opts.output THEN
               /\ cv_pc' = "write"
               /\ UNCHANGED <<cv_result, cv_console, cv_exc, cv_exit>>
       ELSE /\ CvEnd(0, NoExc, <<"SUCCESS Output: No output file specified",
                                 "SUCCESS Conversion completed successfully!">>)
            /\ UNCHANGED cv_result
    /\ UNCHANGED <<cv_action, cv_dest, cv_dest0, cv_new, cv_opts, cv_calls>>
    /\ UNCHANGED <<genVars, regVars, rmVars, fmtVars, mdVars>>

\* line 127: output.parent.mkdir(parents=True, exist_ok=True)
CvMkdir ==
    /\ cv_pc = "write"
    /\ cv_dest' = [cv_dest EXCEPT !.parent = TRUE]
    /\ cv_pc' = "open"
    /\ UNCHANGED <<cv_action, cv_dest0, cv_new, cv_opts, cv_result, cv_calls,
                   cv_console, cv_exc, cv_exit>>
    /\ UNCHANGED <<genVars, regVars, rmVars, fmtVars, mdVars>>

\* line 128, output.write_text(result): the file is opened for writing,
\* which creates it or truncates it
CvOpen ==
    /\ cv_pc = "open"
    /\ cv_dest' = [exists |-> TRUE, parent |-> TRUE, text |-> PartialText]
    /\ cv_pc' = "writing"
    /\ UNCHANGED <<cv_action, cv_dest0, cv_new, cv_opts, cv_result, cv_calls,
                   cv_console, cv_exc, cv_exit>>
    /\ UNCHANGED <<genVars, regVars, rmVars, fmtVars, mdVars>>

\* lines 128-155, output.write_text(result): the text is written and the
\* file closed; convert reports and returns
CvWrite ==
    /\ cv_pc = "writing"
    /\ cv_dest' = [exists |-> TRUE, parent |-> TRUE, text |-> cv_result]
    /\ CvEnd(0, NoExc, <<"SUCCESS Output file", "SUCCESS Conversion completed successfully!">>)
    /\ UNCHANGED <<cv_action, cv_dest0, cv_new, cv_opts, cv_result, cv_calls>>
    /\ UNCHANGED <<genVars, regVars, rmVars, fmtVars, mdVars>>

\* lines 127-128: mkdir, open or write raises OSError (no permission, no
\* space left)
CvWriteRaises ==
    /\ cv_pc \in {"write", "open", "writing"}
    /\ CvRaiseInner("OSError")
    /\ UNCHANGED <<cv_action, cv_dest, cv_dest0, cv_new, cv_opts, cv_result, cv_calls>>
    /\ UNCHANGED <<genVars, regVars, rmVars, fmtVars, mdVars>>

\* the user interrupts the command: KeyboardInterrupt rises at the
\* statement convert() is at, outside (lines 53-98) or inside (lines
\* 100-150) the inner try block
CvInterrupt ==
    /\ cv_pc \in {"start", "convert", "reconcile", "write", "open", "writing"}
    /\ IF cv_pc = "start"
       THEN CvRaise("KeyboardInterrupt", <<>>)
       ELSE CvRaiseInner("KeyboardInterrupt")
    /\ UNCHANGED <<cv_action, cv_dest, cv_dest0, cv_new, cv_opts, cv_result, cv_calls>>
    /\ UNCHANGED <<genVars, regVars, rmVars, fmtVars, mdVars>>

NextCv ==
    \/ \E o \in Options : CvValidate(o)
    \/ \E text \in Generated : CvTransform(text)
    \/ \E stage \in TransformStages : CvTransformRaises(stage)
    \/ CvNoFormat
    \/ CvReconcile
    \/ CvMkdir
    \/ CvOpen
    \/ CvWrite
    \/ CvWriteRaises
    \/ CvInterrupt

SpecCv == InitCv /\ [][NextCv]_vars

(***************************************************************************)
(* Claim about the merge convert performs.                                 *)
(***************************************************************************)
\* convert was asked to merge; the destination held a JSON mapping and the
\* generation returned a JSON mapping
MergeOfTwoMappings ==
    /\ Lower(cv_action) = "merge"
    /\ cv_opts.read /\ cv_opts.output
    /\ cv_dest0.exists /\ cv_dest0.text.fmt = "json" /\ cv_dest0.text.root.t = "dict"
    /\ cv_new.fmt = "json" /\ cv_new.root.t = "dict"

\* C10: the merge convert performs against an existing destination, in a run
\* that no interrupt and no I/O error ends, writes
\* the depth-1 merge of the two root mappings: every top-level key of the
\* new content carries the new value as a whole, every existing top-level
\* key absent from the new content is preserved, and there is no other key.
C10_ReplaceMerge ==
    (cv_pc = "done" /\ MergeOfTwoMappings /\ cv_exc = NoExc) =>
        LET e == cv_dest0.text.root.d
            n == cv_new.root.d
        IN
        /\ cv_exit = 0
        /\ cv_dest.exists
        /\ cv_dest.text.fmt = "json"
        /\ cv_dest.text.root.t = "dict"
        /\ DOMAIN cv_dest.text.root.d = DOMAIN e \cup DOMAIN n
        /\ \A k \in DOMAIN n : cv_dest.text.root.d[k] = n[k]
        /\ \A k \in DOMAIN e \ DOMAIN n : cv_dest.text.root.d[k] = e[k]

\* C10 witness: {a: {x: 1, y: 2}, b: 5} merged with {a: {y: 9, z: 3}, c: 7}
\* was written as {a: {y: 9, z: 3}, b: 5, c: 7}; x is lost.
C10_Witness ==
    /\ cv_pc = "done"
    /\ MergeOfTwoMappings
    /\ cv_dest0.text.root = ExampleExisting
    /\ cv_new.root = ExampleNew
    /\ cv_dest.text.root.d["a"] = ExampleNew.d["a"]
    /\ cv_dest.text.root.d["b"] = CvInt(5)
    /\ cv_dest.text.root.d["c"] = CvInt(7)
    /\ DOMAIN cv_dest.text.root.d["a"].d = {"y", "z"}

(***************************************************************************)
(* The two merges side by side: merge_dicts and the merge step of convert  *)
(* applied to the same existing and new dicts.                             *)
(***************************************************************************)
\* convert, case "merge": existing_data.update(new_data) on the JSON texts
\* of the two dicts
ReplaceMergeCall ==
    /\ md_replaced = Pending
    /\ md_replaced' =
          MergeIntoExisting(JsonText(Content(md_heap0, RefVal(md_base))),
                            JsonText(Content(md_heap0, RefVal(md_override))))
    /\ UNCHANGED <<heap, md_base, md_override, md_result, md_heap0>>
    /\ UNCHANGED <<genVars, regVars, rmVars, fmtVars, cvVars>>

NextMerge == MergeCall \/ ReplaceMergeCall

SpecMerge == InitMd /\ [][NextMerge]_vars

\* every key of o that b lacks is in r with o's value
TakesNewOnlyKeys(r, b, o) ==
    \A k \in DOMAIN o.d \ DOMAIN b.d : k \in DOMAIN r.d /\ r.d[k] = o.d[k]

\* every key that only b holds, under a path of dicts on both sides, is in
\* r under that path with b's value
RECURSIVE KeepsExistingOnlyKeys(_, _, _)
KeepsExistingOnlyKeys(r, b, o) ==
    \A k \in DOMAIN b.d :
        IF k \notin DOMAIN o.d
        THEN k \in DOMAIN r.d /\ r.d[k] = b.d[k]
        ELSE (b.d[k].t = "dict" /\ o.d[k].t = "dict") =>
                /\ k \in DOMAIN r.d
                /\ r.d[k].t = "dict"
                /\ KeepsExistingOnlyKeys(r.d[k], b.d[k], o.d[k])

\* C11: after either merge of an existing and a new mapping, every top-level
\* key that only the new mapping holds is in the result with the new value;
\* after merge_dicts, every key, at any depth, that only the existing
\* mapping holds under a path whose values are mappings on both sides is
\* still in the result with its existing value.
C11_MergesKeepKeys ==
    LET b == Content(md_heap0, RefVal(md_base))
        o == Content(md_heap0, RefVal(md_override))
    IN
    /\ md_result # 0 =>
          /\ TakesNewOnlyKeys(Content(heap, RefVal(md_result)), b, o)
          /\ KeepsExistingOnlyKeys(Content(heap, RefVal(md_result)), b, o)
    /\ md_replaced # Pending =>
          /\ md_replaced.ok
          /\ TakesNewOnlyKeys(md_replaced.text.root, b, o)

\* C11 witness: both merges of {a: {x: 1, y: 2}, b: 5} with
\* {a: {y: 9, z: 3}, c: 7} are done; both results hold c: 7, and the result
\* of merge_dicts still holds x: 1 under a.
C11_Witness ==
    /\ md_heap0 = ExampleHeap
    /\ md_result # 0
    /\ md_replaced # Pending
    /\ heap[md_result]["c"] = IntVal(7)
    /\ heap[heap[md_result]["a"].v]["x"] = IntVal(1)
    /\ md_replaced.text.root.d["c"] = CvInt(7)

(***************************************************************************)
(* Claims about the reconciliation with an existing destination.           *)
(***************************************************************************)
\* the messages printed so far
Printed == {cv_console[i] : i \in 1..Len(cv_console)}

Interrupted == cv_exc.name = "KeyboardInterrupt"

\* ConfigTransformer.transform returned
Generation == cv_new.fmt # "none"

\* C12: convert with action skip and an existing destination never opens,
\* truncates or writes the file and creates no directory: the destination
\* stays as it was found; once the generation has returned and unless the
\* user interrupts, convert returns normally (exit code 0) after printing
\* that the conversion is skipped, and reports no saved output.
C12_SkipLeavesDestination ==
    (cv_dest0.exists /\ cv_action \in {"skip"}) =>
        /\ cv_dest = cv_dest0
        /\ cv_pc \notin {"write", "open", "writing"}
        /\ (cv_pc = "done" /\ Generation /\ ~Interrupted) =>
              /\ cv_exit = 0
              /\ cv_exc = NoExc
              /\ cv_console[Len(cv_console)] = "Skipping conversion: output file already exists"
              /\ "SUCCESS Output file" \notin Printed

\* C12 witness: a run with action skip found a JSON mapping at the
\* destination, generated a different one, and ended with exit code 0.
C12_Witness ==
    /\ cv_pc = "done"
    /\ cv_action = "skip"
    /\ cv_dest0.exists /\ cv_dest0.text = JsonText(ExampleExisting)
    /\ cv_new = JsonText(ExampleNew)
    /\ cv_calls = 1
    /\ cv_exit = 0
    /\ cv_dest = cv_dest0

\* convert was asked to merge, found a destination holding a mapping in one
\* of the structured formats, and the generation returned a mapping
MergeIntoStructured ==
    /\ cv_action \in {"merge", "MERGE"}
    /\ cv_opts.read /\ cv_opts.output
    /\ cv_dest0.exists
    /\ cv_dest0.text.fmt \in {"json", "yaml", "toml"}
    /\ cv_dest0.text.root.t = "dict"
    /\ Generation
    /\ cv_new.fmt \in {"json", "yaml", "toml"}
    /\ cv_new.root.t = "dict"

\* C13: a merge into an existing destination parses the existing file in
\* its own format and writes the merged mapping back in that format: a
\* JSON, YAML or TOML destination is, after the merge, a JSON, YAML or TOML
\* file holding the keys of both mappings.
C13_MergeKeepsFormat ==
    (cv_pc = "done" /\ MergeIntoStructured /\ cv_exc.name \notin {"KeyboardInterrupt", "OSError"}) =>
        /\ cv_exit = 0
        /\ cv_dest.text.fmt = cv_dest0.text.fmt
        /\ cv_dest.text.root.t = "dict"
        /\ DOMAIN cv_dest.text.root.d =
              DOMAIN cv_dest0.text.root.d \cup DOMAIN cv_new.root.d

\* convert was asked to merge and found a destination whose root is not a
\* mapping
MergeIntoNonMapping ==
    /\ cv_action \in {"merge", "MERGE"}
    /\ cv_dest0.exists
    /\ cv_dest0.text.fmt \in {"json", "yaml", "toml"}
    /\ cv_dest0.text.root.t # "dict"

\* C14: a merge against an existing destination whose parsed root is not a
\* mapping (a sequence, a scalar) never opens or writes the destination,
\* which stays as it was found; once the generation has returned and unless
\* the user interrupts, the run ends in the handled error of the merge
\* step: "Error during conversion" is printed and the exit code is 1.
C14_MergeIntoNonMappingFails ==
    MergeIntoNonMapping =>
        /\ cv_dest = cv_dest0
        /\ cv_pc \notin {"write", "open", "writing"}
        /\ (cv_pc = "done" /\ Generation /\ ~Interrupted) =>
              /\ cv_exit = 1
              /\ cv_exc.at = "reconcile"
              /\ cv_exc.name \in {"AttributeError", "JSONDecodeError"}
              /\ "Error during conversion:" \in Printed

\* C14 witness: a merge of a generated JSON mapping into a destination that
\* holds a JSON sequence has ended with exit code 1 on the AttributeError of
\* list.update.
C14_Witness ==
    /\ cv_pc = "done"
    /\ cv_action = "merge"
    /\ cv_dest0.exists /\ cv_dest0.text = JsonText(CvList(1))
    /\ cv_new = JsonText(ExampleNew)
    /\ cv_exc = [name |-> "AttributeError", at |-> "reconcile"]
    /\ cv_exit = 1
    /\ cv_dest = cv_dest0

(***************************************************************************)
(* convert_from_json followed by parse_config_string.                      *)
(*                                                                         *)
(* A value is null, an integer, a list of values or a dict of values.  A   *)
(* text is what each parser makes of it, as in the format cascade; the     *)
(* value a parser yields is the value itself.                              *)
(***************************************************************************)
MaxRtLeaf == 1          \* integer leaves are 1 .. MaxRtLeaf
MaxRtLen == 2           \* lists hold at most MaxRtLen items

RtNull == [t |-> "null", n |-> 0, d |-> <<>>]
RtList(items) == [t |-> "list", n |-> Len(items), d |-> items]

RtLeaves == {CvInt(n) : n \in 1..MaxRtLeaf} \cup {RtNull}
RtSeqs(vs) == UNION {[1..n -> vs] : n \in 0..MaxRtLen}
RtInner ==
    RtLeaves
    \cup {RtList(q) : q \in RtSeqs(RtLeaves)}
    \cup {CvDict(f) : f \in DictsOver({"x"}, RtLeaves)}
\* the containers: dicts and lists, the empty ones included
RtContainers ==
    {CvDict(f) : f \in DictsOver(TopKeys, RtInner)}
    \cup {RtList(q) : q \in RtSeqs(RtInner)}

Dialects == {"json", "yaml", "toml"}

RECURSIVE HoldsNull(_)
HoldsNull(v) ==
    \/ v.t = "null"
    \/ v.t = "dict" /\ \E k \in DOMAIN v.d : HoldsNull(v.d[k])
    \/ v.t = "list" /\ \E i \in 1..v.n : HoldsNull(v.d[i])

\* what a parser yields for a text that denotes v
Yields(v) == [kind |-> v.t, val |-> v]
Text(v, syntax) ==
    [blank |-> FALSE,
     json |-> IF syntax = "json" THEN Yields(v) ELSE DecodeError,
     toml |-> IF syntax = "toml" THEN Yields(v) ELSE DecodeError,
     toon |-> DecodeError,
     yaml |-> IF syntax \in {"json", "yaml"} THEN Yields(v) ELSE DecodeError]
\* the empty text
BlankText ==
    [blank |-> TRUE, json |-> DecodeError, toml |-> EmptyDict,
     toon |-> DecodeError, yaml |-> NoneScalar]

Returns(text) == [status |-> "text", text |-> text]
Raises(exc) == [status |-> "raised", exc |-> exc]

\* json.dumps(data, indent=2)
JsonDumps(v) == Returns(Text(v, "json"))

\* yaml.dump(data, sort_keys=False, indent=2): block style; an empty
\* collection at the root is written in flow style, "{}" or "[]", which is
\* JSON as well
YamlDump(v) ==
    IF v.n = 0 /\ v.d = <<>> THEN Returns(Text(v, "json"))
    ELSE Returns(Text(v, "yaml"))

RECURSIVE WithoutNulls(_)
WithoutNulls(v) ==
    IF v.t = "dict"
    THEN CvDict([k \in {j \in DOMAIN v.d : v.d[j].t # "null"} |-> WithoutNulls(v.d[k])])
    ELSE v

TomlDumps_DropsNull(v) ==
    IF v.t # "dict" THEN Raises("AttributeError")
    ELSE IF WithoutNulls(v).d = <<>> THEN Returns(BlankText)
    ELSE Returns(Text(WithoutNulls(v), "toml"))

\* tomli_w.dumps(data): a document is a table; TOML has no null; the empty
\* table is the empty document
TomlDumps(v) ==
    IF v.t # "dict" THEN Raises("AttributeError")
    ELSE IF HoldsNull(v) THEN Raises("TypeError")
    ELSE IF v.d = <<>> THEN Returns(BlankText)
    ELSE Returns(Text(v, "toml"))

\* convert_from_json(data, format_type)
ConvertFromJson(v, d) ==
    IF d = "json" THEN JsonDumps(v)
    ELSE IF d = "yaml" THEN YamlDump(v)
    ELSE IF d = "toml" THEN TomlDumps(v)
    ELSE Raises("ValueError")

InitRt ==
    /\ rt_value \in RtContainers
    /\ rt_dialect \in Dialects
    /\ rt_out = Pending
    /\ rt_parsed = Pending
    /\ cfg = "" /\ fmt_result = "pending" /\ parse_result = [status |-> "pending"]
    /\ GenIdle /\ RegIdle /\ RmIdle /\ MdIdle /\ CvIdle

Serialize ==
    /\ rt_out = Pending
    /\ rt_out' = ConvertFromJson(rt_value, rt_dialect)
    /\ UNCHANGED <<cfg, fmt_result, parse_result, rt_value, rt_dialect, rt_parsed>>
    /\ UNCHANGED <<genVars, regVars, rmVars, mdVars, cvVars>>

ParseBack ==
    /\ rt_out # Pending /\ rt_out.status = "text"
    /\ rt_parsed = Pending
    /\ rt_parsed' = ParseConfigString(rt_out.text)
    /\ UNCHANGED <<cfg, fmt_result, parse_result, rt_value, rt_dialect, rt_out>>
    /\ UNCHANGED <<genVars, regVars, rmVars, mdVars, cvVars>>

NextRt == Serialize \/ ParseBack

SpecRt == InitRt /\ [][NextRt]_vars

(***************************************************************************)
(* Claim about the round trip.                                             *)
(***************************************************************************)
\* parse_config_string returned the value that was serialized
RoundTripped ==
    /\ rt_parsed.status = "value"
    /\ rt_parsed.val = rt_value

TomlRoundTrips(v) == v.t = "dict" /\ v.d # <<>> /\ ~HoldsNull(v)

C15_EmptyTomlWitness ==
    /\ rt_dialect = "toml"
    /\ rt_value = CvDict(<<>>)
    /\ rt_parsed = None

\* C15 witness, third case: the empty sequence went through YAML and came
\* back equal.
C15_EmptyYamlWitness ==
    /\ rt_dialect = "yaml"
    /\ rt_value = RtList(<<>>)
    /\ rt_parsed # Pending
    /\ RoundTripped

(***************************************************************************)
(* Claims about the write, the exit codes and the action check of convert. *)
(***************************************************************************)
\* the file at the destination path, without its directory
FileOf(dest) ==
    IF dest.exists THEN [exists |-> TRUE, text |-> dest.text] ELSE [exists |-> FALSE]

\* C16: no partial write of the destination: however a run of convert
\* ends, interrupted and failed runs included, the destination file holds
\* its complete prior content (or is absent, if it was), or the complete
\* final content; never a truncated or partly written text.
C16_NoPartialWrite ==
    cv_pc = "done" =>
        \/ FileOf(cv_dest) = FileOf(cv_dest0)
        \/ cv_dest.exists /\ cv_dest.text = cv_result

\* C17: every run of convert ends with exit code 0, 1 or 130: 0 when the
\* conversion succeeded (the completion message was printed, the output
\* written); 1 on a handled failure (no input source, unsupported target
\* format, invalid output action, an error of the transformation at any of
\* its stages, an error of the merge, of the write); 130 when the user
\* interrupted it, at whatever step.
C17_ExitCodes ==
    cv_pc = "done" =>
        /\ cv_exit \in {0, 1, 130}
        /\ Interrupted => cv_exit = 130
        /\ ("SUCCESS Conversion completed successfully!" \in Printed) => cv_exit = 0
        /\ (cv_exc = NoExc /\ cv_opts.output /\ cv_dest.exists /\ cv_dest.text = cv_result)
              => cv_exit = 0
        /\ ~Interrupted =>
              /\ (~cv_opts.input \/ cv_opts.format = "invalid") => cv_exit = 1
              /\ cv_action \in {"replace", "update"} => cv_exit = 1
              /\ cv_exc.at \in TransformStages \cup {"reconcile", "write", "open", "writing"}
                    => cv_exit = 1
        /\ cv_exit = 130 => Interrupted
        /\ cv_exit = 0 => cv_exc = NoExc

\* C17 witness: the user interrupted convert while the destination was
\* being written, and the exit code is 130.
C17_Witness ==
    /\ cv_pc = "done"
    /\ cv_exc = [name |-> "KeyboardInterrupt", at |-> "writing"]
    /\ cv_exit = 130

\* C17 witness, second case: the generation failed and the exit code is 1.
C17_FailureWitness ==
    /\ cv_pc = "done"
    /\ cv_exc = [name |-> "RuntimeError", at |-> "generate"]
    /\ cv_calls = 1
    /\ cv_exit = 1

\* C17 witness, third case: the output was written and the exit code is 0.
C17_SuccessWitness ==
    /\ cv_pc = "done"
    /\ ~cv_dest0.exists
    /\ cv_dest.exists /\ cv_dest.text = JsonText(ExampleNew)
    /\ cv_exit = 0

InvalidActionMessage == "Error: Invalid output action. Choose from: overwrite, skip, merge"

\* C18: convert with an output action outside the accepted set never calls
\* ConfigTransformer.transform (no provider is created, no generation is
\* requested), never creates or modifies the destination or its directory,
\* and, unless the user interrupts, ends with exit code 1; the rejection is
\* reported when the checks that precede it (input source, confirmation,
\* target format) pass.
C18_InvalidActionRejected ==
    cv_action \notin {"overwrite", "skip", "merge", "MERGE"} =>
        /\ cv_calls = 0
        /\ ~Generation
        /\ cv_dest = cv_dest0
        /\ cv_pc \in {"start", "done"}
        /\ (cv_pc = "done" /\ ~Interrupted) =>
              /\ cv_exit = 1
              /\ (cv_opts.input /\ cv_opts.confirm /\ cv_opts.format # "invalid")
                    => InvalidActionMessage \in Printed

\* C18 witness: a run with action "replace" and an existing destination was
\* rejected for its action, with exit code 1.
C18_Witness ==
    /\ cv_pc = "done"
    /\ cv_action = "replace"
    /\ cv_dest0.exists
    /\ InvalidActionMessage \in Printed
    /\ cv_exit = 1
    /\ cv_calls = 0
    /\ cv_dest = cv_dest0

\* the run reached the check of the output action
ActionChecked ==
    /\ cv_opts.read
    /\ cv_opts.input /\ cv_opts.confirm /\ cv_opts.format # "invalid"

\* the check of the output action passed
ActionAccepted == "Converting" \in Printed

\* C19 as stated: the accepted output actions are exactly overwrite, skip,
\* replace and update, compared case-insensitively: the check passes for
\* each of these four and fails for every other string.
C19_FourActions ==
    ActionChecked =>
        /\ ActionAccepted <=> cv_action \in {"overwrite", "skip", "replace", "update"}
        /\ (InvalidActionMessage \in Printed)
              <=> cv_action \notin {"overwrite", "skip", "replace", "update"}

\* C19, amended: the accepted output actions are exactly overwrite, skip
\* and merge, compared case-insensitively: the check passes for each of
\* these three, in any letter case, and fails for every other string,
\* "replace" and "update" included.
C19_ThreeActions ==
    ActionChecked =>
        /\ ActionAccepted <=> cv_action \in {"overwrite", "skip", "merge", "MERGE"}
        /\ (InvalidActionMessage \in Printed)
              <=> cv_action \notin {"overwrite", "skip", "merge", "MERGE"}

\* C19 witness: the action "MERGE" passed the check.
C19_Witness ==
    /\ cv_action = "MERGE"
    /\ ActionChecked
    /\ ActionAccepted
    /\ cv_pc = "convert"

\* C19 witness, second case: the action "update" failed the check.
C19_RejectWitness ==
    /\ cv_action = "update"
    /\ ActionChecked
    /\ InvalidActionMessage \in Printed
    /\ cv_exit = 1

(***************************************************************************)
(* LiteLLMClient.__init__: the API key, passed or from the environment.    *)
(*                                                                         *)
(* A string is its text without the surrounding whitespace and whether it  *)
(* carries surrounding whitespace; None is [set |-> FALSE].                *)
(***************************************************************************)
NoneStr == [set |-> FALSE]
Str(core, padded) == [set |-> TRUE, core |-> core, padded |-> padded]

\* bool(s) of a string or None
Truthy(s) == s.set /\ (s.core # "" \/ s.padded)
\* s.strip()
Strip(s) == Str(s.core, FALSE)

\* PROVIDER_API_KEY_ENV_VARS.get(provider, []): a provider with three
\* variables, one with one, one with none, one that is not listed
ApiKeyEnvVars(provider) ==
    IF provider = "gemini"
    THEN <<"GEMINI_API_KEY", "GOOGLE_API_KEY", "GOOGLE_GENERATIVE_AI_API_KEY">>
    ELSE IF provider = "openai" THEN <<"OPENAI_API_KEY">>
    ELSE <<>>

KeyProviders == {"gemini", "openai", "ollama", "custom", ""}
EnvVarNames ==
    {"GEMINI_API_KEY", "GOOGLE_API_KEY", "GOOGLE_GENERATIVE_AI_API_KEY", "OPENAI_API_KEY"}

\* the values a variable can hold: unset, empty, blank, a key with or
\* without surrounding whitespace; the key names its variable
EnvValues(name) ==
    {NoneStr, Str("", FALSE), Str("", TRUE), Str(name, FALSE), Str(name, TRUE)}
Environments == {e \in [EnvVarNames -> UNION {EnvValues(n) : n \in EnvVarNames}] :
                    \A n \in EnvVarNames : e[n] \in EnvValues(n)}

\* the api_key argument
ExplicitKeys ==
    {NoneStr, Str("", FALSE), Str("", TRUE), Str("explicit-key", FALSE),
     Str("explicit-key", TRUE)}

RECURSIVE FirstKeyInEnv_FirstSet(_, _, _)
FirstKeyInEnv_FirstSet(env_vars, env, i) ==
    IF i > Len(env_vars) THEN NoneStr
    ELSE LET value == env[env_vars[i]]
         IN IF value.set
            THEN (IF Truthy(Strip(value)) THEN Strip(value) ELSE NoneStr)
            ELSE FirstKeyInEnv_FirstSet(env_vars, env, i + 1)

\* for env_var in env_vars: value = os.getenv(env_var);
\* if value and value.strip(): return value.strip()
RECURSIVE FirstKeyInEnv(_, _, _)
FirstKeyInEnv(env_vars, env, i) ==
    IF i > Len(env_vars) THEN NoneStr
    ELSE LET value == env[env_vars[i]]
         IN IF Truthy(value) /\ Truthy(Strip(value))
            THEN Strip(value)
            ELSE FirstKeyInEnv(env_vars, env, i + 1)

\* _get_api_key_from_env()
GetApiKeyFromEnv(provider, env) ==
    IF provider = "" THEN NoneStr
    ELSE FirstKeyInEnv(ApiKeyEnvVars(provider), env, 1)

\* api_key or self._get_api_key_from_env()
ResolveApiKey(explicit, provider, env) ==
    IF Truthy(explicit) THEN explicit ELSE GetApiKeyFromEnv(provider, env)

InitKey ==
    /\ ak_provider \in KeyProviders
    /\ ak_explicit \in ExplicitKeys
    /\ ak_env \in Environments
    /\ ak_key = Pending
    /\ rm_model = [type |-> "none"] /\ rm_available = <<>> /\ rm_fetched = 0
    /\ rm_result = Pending /\ rm_client = [built |-> FALSE]
    /\ GenIdle /\ RegIdle /\ FmtIdle /\ MdIdle /\ CvIdle

\* line 137: self.api_key = api_key or self._get_api_key_from_env()
KeyResolve ==
    /\ ak_key = Pending
    /\ ak_key' = ResolveApiKey(ak_explicit, ak_provider, ak_env)
    /\ UNCHANGED <<rm_model, rm_available, rm_fetched, rm_result, rm_client,
                   ak_provider, ak_explicit, ak_env>>
    /\ UNCHANGED <<genVars, regVars, fmtVars, mdVars, cvVars>>

NextKey == KeyResolve

SpecKey == InitKey /\ [][NextKey]_vars

(***************************************************************************)
(* Claim about the API key.                                                *)
(***************************************************************************)
\* the variable is set to a value that is not blank
NonBlank(value) == value.set /\ value.core # ""

\* the key is the stripped value of the first variable of the provider, in
\* declared order, that is set and not blank; None when there is none
KeyFromEnvironment ==
    LET env_vars == ApiKeyEnvVars(ak_provider)
        set == {i \in 1..Len(env_vars) : NonBlank(ak_env[env_vars[i]])}
    IN IF set = {} THEN ak_key = NoneStr
       ELSE \E i \in set :
               /\ \A j \in set : i <= j
               /\ ak_key = Str(ak_env[env_vars[i]].core, FALSE)

\* C20 as stated: the client's API key is the passed key whenever one is
\* passed; otherwise the stripped value of the first environment variable
\* of the provider, in declared order, that is set and not blank; otherwise
\* absent.
C20_KeyResolution ==
    ak_key # Pending =>
        IF ak_explicit.set THEN ak_key = ak_explicit ELSE KeyFromEnvironment

\* C20, amended: the client's API key is the passed key, as passed, whenever
\* a non-empty one is passed; when none or the empty string is passed it is
\* the stripped value of the first environment variable of the provider, in
\* declared order, that is set and not blank, an empty or blank earlier
\* variable never shadowing a later one; otherwise it is absent.
C20_KeyResolutionNonEmpty ==
    ak_key # Pending =>
        IF ak_explicit.set /\ ak_explicit # Str("", FALSE)
        THEN ak_key = ak_explicit
        ELSE KeyFromEnvironment

\* C20 witness: no key was passed, GEMINI_API_KEY is empty and
\* GOOGLE_API_KEY holds a key with surrounding whitespace, which is the
\* client's key, stripped.
C20_Witness ==
    /\ ak_provider = "gemini"
    /\ ak_explicit = NoneStr
    /\ ak_env["GEMINI_API_KEY"] = Str("", FALSE)
    /\ ak_env["GOOGLE_API_KEY"] = Str("GOOGLE_API_KEY", TRUE)
    /\ ak_env["GOOGLE_GENERATIVE_AI_API_KEY"] = Str("GOOGLE_GENERATIVE_AI_API_KEY", FALSE)
    /\ ak_key = Str("GOOGLE_API_KEY", FALSE)

\* C20 witness, second case: the empty string was passed and the client's
\* key is the one of OPENAI_API_KEY.
C20_EmptyExplicitWitness ==
    /\ ak_provider = "openai"
    /\ ak_explicit = Str("", FALSE)
    /\ ak_key = Str("OPENAI_API_KEY", FALSE)

\* C20 witness, third case: a key was passed and is the client's key, the
\* environment holding another.
C20_ExplicitWitness ==
    /\ ak_provider = "openai"
    /\ ak_explicit = Str("explicit-key", FALSE)
    /\ ak_env["OPENAI_API_KEY"] = Str("OPENAI_API_KEY", FALSE)
    /\ ak_key = ak_explicit

(***************************************************************************)
(* Automatic provider choice outside select_best_provider: the CLI's       *)
(* select_auto_provider over the registry, and create_client_from_env over *)
(* the environment.                                                        *)
(***************************************************************************)
MaxAutoProviders == 2   \* the registry holds up to MaxAutoProviders providers here

ListProviders_ByCost(reg) == [i \in 1..Len(reg) |-> SortedByCost(reg)[i].name]

\* ProviderRegistry.list_providers(): list(_PROVIDER_REGISTRY.keys())
ListProviders(reg) == [i \in 1..Len(reg) |-> reg[i].name]

\* select_auto_provider: "for provider_name in providers", a constructor
\* that raises or a failed validate_config() passing to the next name
RECURSIVE FirstConfigured(_, _, _)
FirstConfigured(names, h, i) ==
    IF i > Len(names)
    THEN [status |-> "raised", type |-> "ValueError", provider |-> ""]
    ELSE IF h[names[i]] # "init_error" /\ ValidateConfig(h[names[i]])
    THEN [status |-> "returned", type |-> "", provider |-> names[i]]
    ELSE FirstConfigured(names, h, i + 1)

SelectAutoProvider(reg, h) == FirstConfigured(ListProviders(reg), h, 1)

\* PROVIDER_API_KEY_ENV_VARS, in declared order, for five of the providers;
\* ollama has no variable
ApiKeyTable == <<"openai", "gemini", "deepseek", "ollama", "zai">>
KeyedProviders == {"openai", "gemini", "deepseek", "zai"}

\* PROVIDER_COST_FACTORS
PROVIDER_COST_FACTORS ==
    [p \in {"openai", "gemini", "deepseek", "ollama", "zai"} |->
        CASE p = "openai" -> 90 [] p = "gemini" -> 55 [] p = "deepseek" -> 20
          [] p = "ollama" -> 0 [] p = "zai" -> 15]

\* detect_available_providers(): the providers, in declared order, that
\* need no key or have one
RECURSIVE DetectFrom(_, _)
DetectFrom(keys, i) ==
    IF i > Len(ApiKeyTable) THEN <<>>
    ELSE IF ApiKeyTable[i] \notin KeyedProviders \/ keys[ApiKeyTable[i]]
    THEN <<ApiKeyTable[i]>> \o DetectFrom(keys, i + 1)
    ELSE DetectFrom(keys, i + 1)
DetectAvailableProviders(keys) == DetectFrom(keys, 1)

\* LiteLLMClient(provider, model=PROVIDER_DEFAULT_MODELS[provider]): the
\* default model of ollama is the index 0, which needs a model list
NewClient(provider, models) ==
    IF provider = "ollama" /\ ~models
    THEN [status |-> "raised", type |-> "ValueError", provider |-> provider]
    ELSE [status |-> "returned", type |-> "client", provider |-> provider]
NoClient == [status |-> "returned", type |-> "None", provider |-> ""]

\* create_client_from_env()
CreateClientFromEnv(conf, keys, models) ==
    IF conf.provider # "" \/ conf.other
    THEN (IF conf.provider = "" THEN NoClient ELSE NewClient(conf.provider, models))
    ELSE LET available == DetectAvailableProviders(keys)
         IN IF available # <<>> THEN NewClient(available[1], models) ELSE NoClient

\* MCP_CONFIG_CONF_LLM_PROVIDER unset, "auto" or a provider; "other": one of
\* the model, API key and base URL variables is set
EnvConfs == [provider : {"", "auto", "openai"}, other : BOOLEAN]

AutoRegistries == {r \in Registries : Len(r) <= MaxAutoProviders}

\* the registry with a bare environment, or the environment with an empty
\* registry
InitAuto ==
    /\ \/ /\ registry \in AutoRegistries
          /\ health \in [{registry[i].name : i \in 1..Len(registry)} -> Healths]
          /\ ce_conf = [provider |-> "", other |-> FALSE]
          /\ ce_keys = [p \in KeyedProviders |-> FALSE]
          /\ ce_models = TRUE
       \/ /\ registry = <<>> /\ health = <<>>
          /\ ce_conf \in EnvConfs
          /\ ce_keys \in [KeyedProviders -> BOOLEAN]
          /\ ce_models \in BOOLEAN
    /\ auto_result = Pending
    /\ ce_client = Pending
    /\ CostIdle /\ OpsIdle
    /\ sel_tried = <<>> /\ sel_log = <<>> /\ sel_result = Pending
    /\ GenIdle /\ RmIdle /\ FmtIdle /\ MdIdle /\ CvIdle

AutoSelect ==
    /\ auto_result = Pending
    /\ auto_result' = SelectAutoProvider(registry, health)
    /\ UNCHANGED <<registry, health, sel_tried, sel_log, sel_result,
                   ce_conf, ce_keys, ce_models, ce_client, costVars, opsVars>>
    /\ UNCHANGED <<genVars, rmVars, fmtVars, mdVars, cvVars>>

CreateFromEnv ==
    /\ ce_client = Pending
    /\ ce_client' = CreateClientFromEnv(ce_conf, ce_keys, ce_models)
    /\ UNCHANGED <<registry, health, sel_tried, sel_log, sel_result,
                   auto_result, ce_conf, ce_keys, ce_models, costVars, opsVars>>
    /\ UNCHANGED <<genVars, rmVars, fmtVars, mdVars, cvVars>>

NextAuto == AutoSelect \/ CreateFromEnv

SpecAuto == InitAuto /\ [][NextAuto]_vars

(***************************************************************************)
(* Claim about the automatic choices.                                      *)
(***************************************************************************)
\* the registered providers that construct and validate
UsableNames == {n \in RegNames : health[n] = "ok"}

\* the providers of the table that need no key or have one
AvailableNames ==
    {ApiKeyTable[i] : i \in {j \in 1..Len(ApiKeyTable) :
        ApiKeyTable[j] \notin KeyedProviders \/ ce_keys[ApiKeyTable[j]]}}
TableIndex(p) == CHOOSE i \in 1..Len(ApiKeyTable) : ApiKeyTable[i] = p

C21_EnvWitness ==
    /\ ce_conf = [provider |-> "", other |-> FALSE]
    /\ ce_keys["openai"] /\ ce_keys["deepseek"]
    /\ ce_client # Pending
    /\ ce_client.status = "returned"
    /\ ce_client.provider = "openai"

(***************************************************************************)
(* get_provider_cost and get_providers_sorted_by_cost.                     *)
(*                                                                         *)
(* The text of an environment variable is a sequence of characters; an     *)
(* unset variable is [set |-> FALSE].                                      *)
(***************************************************************************)
MaxCostLen == 3
MaxSortLen == 3

CostChars == {"0", "7", "-", "+", " ", "a", "_", "."}
CostTexts(n) == UNION {[1..k -> CostChars] : k \in 0..n}
Unset == [set |-> FALSE, chars |-> <<>>]
EnvText(t) == [set |-> TRUE, chars |-> t]

Digits == {"0", "1", "2", "3", "4", "5", "6", "7", "8", "9"}
DigitValue(c) ==
    CASE c = "0" -> 0 [] c = "1" -> 1 [] c = "2" -> 2 [] c = "3" -> 3
      [] c = "4" -> 4 [] c = "5" -> 5 [] c = "6" -> 6 [] c = "7" -> 7
      [] c = "8" -> 8 [] c = "9" -> 9

RECURSIVE LStrip(_)
LStrip(t) == IF t # <<>> /\ t[1] = " " THEN LStrip(Tail(t)) ELSE t
RECURSIVE RStrip(_)
RStrip(t) ==
    IF t # <<>> /\ t[Len(t)] = " " THEN RStrip(SubSeq(t, 1, Len(t) - 1)) ELSE t

\* the digits of an int() literal: digits, single underscores between them
ValidBody(b) ==
    /\ b # <<>>
    /\ b[1] \in Digits /\ b[Len(b)] \in Digits
    /\ \A i \in 1..Len(b) : b[i] \in Digits \cup {"_"}
    /\ \A i \in 1..(Len(b) - 1) : ~(b[i] = "_" /\ b[i + 1] = "_")

RECURSIVE BodyValue(_, _)
BodyValue(b, acc) ==
    IF b = <<>> THEN acc
    ELSE IF b[1] = "_" THEN BodyValue(Tail(b), acc)
    ELSE BodyValue(Tail(b), 10 * acc + DigitValue(b[1]))

\* int(env_value): surrounding whitespace stripped, an optional sign, then
\* the digits; anything else raises ValueError (ok |-> FALSE)
IntParse(t) ==
    LET u == RStrip(LStrip(t))
        signed == u # <<>> /\ u[1] \in {"-", "+"}
        b == IF signed THEN Tail(u) ELSE u
    IN  IF ValidBody(b)
        THEN [ok |-> TRUE,
              value |-> IF signed /\ u[1] = "-" THEN 0 - BodyValue(b, 0)
                        ELSE BodyValue(b, 0)]
        ELSE [ok |-> FALSE, value |-> 0]

\* the provider arguments: registered names, one in another case, one that
\* is in no table
CostProviders == {"ollama", "deepseek", "openai", "OpenAI", "custom"}

\* f"MCP_CONVERT_CONF_{provider.upper()}_COST"
CostVarName(p) ==
    CASE p = "ollama" -> "MCP_CONVERT_CONF_OLLAMA_COST"
      [] p = "deepseek" -> "MCP_CONVERT_CONF_DEEPSEEK_COST"
      [] p \in {"openai", "OpenAI"} -> "MCP_CONVERT_CONF_OPENAI_COST"
      [] p = "custom" -> "MCP_CONVERT_CONF_CUSTOM_COST"
      [] p = "zai" -> "MCP_CONVERT_CONF_ZAI_COST"
      [] p = "gemini" -> "MCP_CONVERT_CONF_GEMINI_COST"
CostVarNames ==
    {CostVarName(p) : p \in CostProviders \cup DOMAIN PROVIDER_COST_FACTORS}

\* PROVIDER_COST_FACTORS.get(provider, 0)
StaticCost(p) ==
    IF p \in DOMAIN PROVIDER_COST_FACTORS THEN PROVIDER_COST_FACTORS[p] ELSE 0

\* list(PROVIDER_COST_FACTORS.keys())
CostTableKeys == <<"ollama", "zai", "deepseek", "gemini", "openai">>

GetProviderCost_KeepsNegative(p, env) ==
    LET v == env[CostVarName(p)]
        r == IntParse(v.chars)
    IN  IF v.set /\ r.ok THEN [cost |-> r.value, warned |-> FALSE]
        ELSE [cost |-> StaticCost(p), warned |-> v.set]

GetProviderCost(p, env) ==
    LET v == env[CostVarName(p)]
        r == IntParse(v.chars)
    IN  IF v.set
        THEN IF r.ok
             THEN IF r.value < 0 THEN [cost |-> StaticCost(p), warned |-> TRUE]
                  ELSE [cost |-> r.value, warned |-> FALSE]
             ELSE [cost |-> StaticCost(p), warned |-> TRUE]
        ELSE [cost |-> StaticCost(p), warned |-> FALSE]

\* sorted(providers, key=lambda p: get_provider_cost(p)): p goes after every
\* element that does not cost more
RECURSIVE InsertByEnvCost(_, _, _)
InsertByEnvCost(p, s, env) ==
    IF s = <<>> THEN <<p>>
    ELSE IF GetProviderCost(s[1], env).cost <= GetProviderCost(p, env).cost
    THEN <<s[1]>> \o InsertByEnvCost(p, Tail(s), env)
    ELSE <<p>> \o s

RECURSIVE SortByEnvCost(_, _, _)
SortByEnvCost(ps, acc, env) ==
    IF ps = <<>> THEN acc
    ELSE SortByEnvCost(Tail(ps), InsertByEnvCost(ps[1], acc, env), env)

GetProvidersSortedByCost(input, env) ==
    SortByEnvCost(IF input.given THEN input.list ELSE CostTableKeys, <<>>, env)

NoOverrides == [n \in CostVarNames |-> Unset]
SortedProviders == {"ollama", "deepseek", "openai"}
SortOverrides ==
    {Unset, EnvText(<<"0">>), EnvText(<<"7">>), EnvText(<<"-", "7">>), EnvText(<<"a">>)}
SortInputs ==
    {[given |-> FALSE, list |-> <<>>]} \cup
    {[given |-> TRUE, list |-> l] :
        l \in UNION {[1..k -> SortedProviders] : k \in 0..MaxSortLen}}

\* either one variable holds any text and any provider is asked for, or
\* the variables of three providers hold typical texts and lists are sorted
InitCost ==
    /\ \/ /\ \E n \in CostVarNames : \E t \in CostTexts(MaxCostLen) :
                cost_env = [NoOverrides EXCEPT ![n] = EnvText(t)]
          /\ gc_provider \in CostProviders
          /\ gs_input = [given |-> FALSE, list |-> <<>>]
       \/ /\ \E o \in [SortedProviders -> SortOverrides] :
                cost_env = [n \in CostVarNames |->
                               IF \E p \in SortedProviders : CostVarName(p) = n
                               THEN o[CHOOSE p \in SortedProviders : CostVarName(p) = n]
                               ELSE Unset]
          /\ gc_provider = "openai"
          /\ gs_input \in SortInputs
    /\ gc_result = Pending /\ gs_result = Pending
    /\ AutoIdle /\ OpsIdle
    /\ registry = <<>> /\ health = <<>>
    /\ sel_tried = <<>> /\ sel_log = <<>> /\ sel_result = Pending
    /\ GenIdle /\ RmIdle /\ FmtIdle /\ MdIdle /\ CvIdle

GetCost ==
    /\ gc_result = Pending
    /\ gc_result' = GetProviderCost(gc_provider, cost_env)
    /\ UNCHANGED <<cost_env, gc_provider, gs_input, gs_result>>
    /\ UNCHANGED <<registry, health, sel_tried, sel_log, sel_result, autoVars, opsVars>>
    /\ UNCHANGED <<genVars, rmVars, fmtVars, mdVars, cvVars>>

SortByCost ==
    /\ gs_result = Pending
    /\ gs_result' = [status |-> "returned",
                     list |-> GetProvidersSortedByCost(gs_input, cost_env)]
    /\ UNCHANGED <<cost_env, gc_provider, gc_result, gs_input>>
    /\ UNCHANGED <<registry, health, sel_tried, sel_log, sel_result, autoVars, opsVars>>
    /\ UNCHANGED <<genVars, rmVars, fmtVars, mdVars, cvVars>>

NextCost == GetCost \/ SortByCost

SpecCost == InitCost /\ [][NextCost]_vars

(***************************************************************************)
(* Claim about the cost of a provider.                                     *)
(***************************************************************************)
\* the cost the claim gives provider p: the override when it holds a
\* non-negative integer, else the static default
EffectiveCost(p) ==
    LET v == cost_env[CostVarName(p)]
    IN  IF v.set /\ IntParse(v.chars).ok /\ IntParse(v.chars).value >= 0
        THEN IntParse(v.chars).value
        ELSE StaticCost(p)

SortInput == IF gs_input.given THEN gs_input.list ELSE CostTableKeys
Occurrences(l, p) == Cardinality({i \in 1..Len(l) : l[i] = p})

C22_SortWitness ==
    /\ cost_env["MCP_CONVERT_CONF_OPENAI_COST"] = EnvText(<<"7">>)
    /\ cost_env["MCP_CONVERT_CONF_OLLAMA_COST"] = EnvText(<<"-", "7">>)
    /\ cost_env["MCP_CONVERT_CONF_DEEPSEEK_COST"] = Unset
    /\ gs_input = [given |-> TRUE, list |-> <<"deepseek", "openai", "ollama">>]
    /\ gs_result # Pending
    /\ gs_result.list = <<"ollama", "openai", "deepseek">>

(***************************************************************************)
(* ProviderRegistry after startup: lookups, listing and create_provider.   *)
(*                                                                         *)
(* A registered class is named by the name it is registered under.  The    *)
(* base_url keyword of create_provider is left out ("absent"), passed as   *)
(* None ("none") or passed as an address ("url").                          *)
(***************************************************************************)
MaxOps == 3           \* calls made on the registry in one run
MaxOpsProviders == 2  \* providers registered at startup

OpsNames == {"A", "B", "C"}
OpsCosts == {20, 55}
OpsHealths == {"ok", "no_api_key", "init_error"}
OpsRegistries ==
    {r \in Registries :
        /\ Len(r) <= MaxOpsProviders
        /\ \A i \in 1..Len(r) : r[i].name \in OpsNames /\ r[i].cost \in OpsCosts}
QueryNames == OpsNames \cup {"auto", "custom_test_provider"}
BaseUrls == {"absent", "none", "url"}

NoValue ==
    [status |-> "returned", type |-> "None", class |-> "", name |-> "",
     cost |-> 0, names |-> <<>>, base_url |-> ""]
OpRaised(type, name) == [NoValue EXCEPT !.status = "raised", !.type = type, !.name = name]

IsRegistered(reg, n) == \E i \in 1..Len(reg) : reg[i].name = n
EntryOf(reg, n) == reg[CHOOSE i \in 1..Len(reg) : reg[i].name = n]

\* _PROVIDER_REGISTRY.get(provider_name)
GetProviderInfo(reg, n) ==
    IF IsRegistered(reg, n)
    THEN [NoValue EXCEPT !.type = "ProviderInfo", !.class = n, !.cost = EntryOf(reg, n).cost]
    ELSE NoValue

\* provider_info.provider_class if provider_info else None
GetProvider(reg, n) ==
    IF GetProviderInfo(reg, n).type = "ProviderInfo"
    THEN [NoValue EXCEPT !.type = "class", !.class = n]
    ELSE NoValue

\* provider_info.provider_class(**kwargs)
Construct(n, h) ==
    IF h[n] = "init_error" THEN OpRaised("constructor error", n)
    ELSE [NoValue EXCEPT !.type = "instance", !.class = n, !.name = n]

\* the loop of select_best_provider over the providers sorted by cost
RECURSIVE BestFrom(_, _, _)
BestFrom(sorted, h, i) ==
    IF i > Len(sorted) THEN OpRaised("ValueError: no suitable provider", "")
    ELSE IF Construct(sorted[i].name, h).status = "returned" /\ ValidateConfig(h[sorted[i].name])
    THEN Construct(sorted[i].name, h)
    ELSE BestFrom(sorted, h, i + 1)

SelectBestProvider(reg, h) == BestFrom(SortedByCost(reg), h, 1)

CreateCustomProvider_Registers(reg, n, base_url) ==
    IF base_url = "absent"
    THEN [result |-> OpRaised("ValueError: not found and no base_url", n), registry |-> reg]
    ELSE [result |-> [NoValue EXCEPT !.type = "instance", !.class = "CustomProvider(OpenAIProvider)",
                                     !.name = n, !.base_url = base_url],
          registry |-> Append(reg, [name |-> n, cost |-> 20])]

\* _create_custom_provider: "base_url" not in kwargs raises; else a subclass
\* of OpenAIProvider is defined, without the registering decorator, and
\* constructed
CreateCustomProvider(reg, n, base_url) ==
    IF base_url = "absent"
    THEN [result |-> OpRaised("ValueError: not found and no base_url", n), registry |-> reg]
    ELSE [result |-> [NoValue EXCEPT !.type = "instance", !.class = "CustomProvider(OpenAIProvider)",
                                     !.name = n, !.base_url = base_url],
          registry |-> reg]

\* create_provider(provider_name, **kwargs): its result and the registry
\* it leaves
CreateProvider(reg, h, n, base_url) ==
    IF n = "auto" THEN [result |-> SelectBestProvider(reg, h), registry |-> reg]
    ELSE IF GetProviderInfo(reg, n).type = "None" THEN CreateCustomProvider(reg, n, base_url)
    ELSE [result |-> Construct(n, h), registry |-> reg]

InitOps ==
    /\ registry \in OpsRegistries
    /\ health \in [{registry[i].name : i \in 1..Len(registry)} -> OpsHealths]
    /\ registry0 = registry
    /\ op_call = [op |-> "none"] /\ op_result = Pending /\ op_count = 0
    /\ AutoIdle /\ CostIdle
    /\ sel_tried = <<>> /\ sel_log = <<>> /\ sel_result = Pending
    /\ GenIdle /\ RmIdle /\ FmtIdle /\ MdIdle /\ CvIdle

OpsFrame ==
    /\ UNCHANGED <<health, registry0, sel_tried, sel_log, sel_result, autoVars, costVars>>
    /\ UNCHANGED <<genVars, rmVars, fmtVars, mdVars, cvVars>>

OpGetProviderInfo(n) ==
    /\ op_count < MaxOps
    /\ op_call' = [op |-> "get_provider_info", name |-> n, base_url |-> "absent"]
    /\ op_result' = GetProviderInfo(registry, n)
    /\ op_count' = op_count + 1
    /\ UNCHANGED registry
    /\ OpsFrame

OpGetProvider(n) ==
    /\ op_count < MaxOps
    /\ op_call' = [op |-> "get_provider", name |-> n, base_url |-> "absent"]
    /\ op_result' = GetProvider(registry, n)
    /\ op_count' = op_count + 1
    /\ UNCHANGED registry
    /\ OpsFrame

OpListProviders ==
    /\ op_count < MaxOps
    /\ op_call' = [op |-> "list_providers", name |-> "", base_url |-> "absent"]
    /\ op_result' = [NoValue EXCEPT !.type = "list", !.names = ListProviders(registry)]
    /\ op_count' = op_count + 1
    /\ UNCHANGED registry
    /\ OpsFrame

OpCreateProvider(n, base_url) ==
    /\ op_count < MaxOps
    /\ op_call' = [op |-> "create_provider", name |-> n, base_url |-> base_url]
    /\ op_result' = CreateProvider(registry, health, n, base_url).result
    /\ registry' = CreateProvider(registry, health, n, base_url).registry
    /\ op_count' = op_count + 1
    /\ OpsFrame

OpSelectBestProvider ==
    /\ op_count < MaxOps
    /\ op_call' = [op |-> "select_best_provider", name |-> "", base_url |-> "absent"]
    /\ op_result' = SelectBestProvider(registry, health)
    /\ op_count' = op_count + 1
    /\ UNCHANGED registry
    /\ OpsFrame

NextOps ==
    \/ \E n \in QueryNames : OpGetProviderInfo(n)
    \/ \E n \in QueryNames : OpGetProvider(n)
    \/ OpListProviders
    \/ \E n \in QueryNames : \E u \in BaseUrls : OpCreateProvider(n, u)
    \/ OpSelectBestProvider

SpecOps == InitOps /\ [][NextOps]_vars

(***************************************************************************)
(* Claims about the registry after startup.                                *)
(***************************************************************************)
\* C23: whatever lookups, listings, create_provider calls ("auto" and the
\* custom-provider path included) and select_best_provider calls are made
\* after startup, the registry keeps the entries, the order and the costs
\* that registration gave it.
C23_RegistryReadOnly == registry = registry0

\* C23 witness: a custom provider was created for an unregistered name as
\* the last of several calls, and the registry, which is not empty, is as
\* registration left it.
C23_Witness ==
    /\ op_count = MaxOps
    /\ op_call.op = "create_provider"
    /\ ~IsRegistered(registry0, op_call.name) /\ op_call.name # "auto"
    /\ op_result.status = "returned" /\ op_result.type = "instance"
    /\ registry0 # <<>>
    /\ registry = registry0

\* C24 does not hold of the code: create_provider with a name that is
\* neither "auto" nor registered raises the not-found error when no
\* base_url is supplied (the keyword left out or None) and returns a custom
\* OpenAI-compatible adapter carrying the name only when an address is
\* supplied; with a registered name it returns an instance of the class
\* registered under that name.
C24_CreateByName ==
    (op_call.op = "create_provider" /\ op_call.name # "auto") =>
        IF IsRegistered(registry0, op_call.name)
        THEN /\ op_result.status = "returned"
             /\ op_result.type = "instance"
             /\ op_result.class = op_call.name
        ELSE IF op_call.base_url = "url"
        THEN /\ op_result.status = "returned"
             /\ op_result.class = "CustomProvider(OpenAIProvider)"
             /\ op_result.name = op_call.name
        ELSE /\ op_result.status = "raised"
             /\ op_result.type = "ValueError: not found and no base_url"

(***************************************************************************)
(* retry_with_backoff: the decorator of cli/utils.py and of cli_helpers.py.*)
(*                                                                         *)
(* Delays are whole numbers of seconds.  An exception is its type and the  *)
(* number of the call that raised it.                                      *)
(***************************************************************************)
MaxBackoffRetries == 3
MaxBackoffDelay == 2
MaxBackoffFactor == 3

\* what one func(*args, **kwargs) call does
FuncOutcomes == {"value", "ValueError", "TypeError", "KeyboardInterrupt"}
\* the exceptions argument: (Exception,) or (ValueError,)
ExceptionFilters == {"Exception", "ValueError"}

\* except exceptions as e
Listed(filter, o) ==
    IF filter = "Exception" THEN o \in {"ValueError", "TypeError"}
    ELSE o = "ValueError"

RbAttempts_NoInitial(n) == n

\* range(max_retries + 1)
RbAttempts(n) == n + 1

RbConfs ==
    [max_retries : -1..MaxBackoffRetries, initial_delay : 1..MaxBackoffDelay,
     backoff_factor : 1..MaxBackoffFactor, exceptions : ExceptionFilters]

InitRb ==
    /\ rb_impl \in {"cli.utils", "cli_helpers"}
    /\ rb_conf \in RbConfs
    /\ rb_attempt = 0
    /\ rb_delay = rb_conf.initial_delay
    /\ rb_last = NoException
    /\ rb_trace = <<>> /\ rb_console = <<>>
    /\ rb_result = Pending
    /\ max_retries = 0 /\ retry_delay = 0 /\ attempt = 0
    /\ last_exception = NoException
    /\ gen_trace = <<>> /\ gen_result = Pending
    /\ OutIdle
    /\ RegIdle /\ RmIdle /\ FmtIdle /\ MdIdle /\ CvIdle

RbFrame ==
    /\ UNCHANGED <<max_retries, retry_delay, attempt, last_exception, gen_trace,
                   gen_result, rb_impl, rb_conf, outVars>>
    /\ UNCHANGED <<regVars, rmVars, fmtVars, mdVars, cvVars>>

\* One iteration of the for loop: the call and its except clause.
\* interrupted: a KeyboardInterrupt arrives during time.sleep().
RbAttempt(o, interrupted) ==
    /\ rb_result = Pending
    /\ rb_attempt < RbAttempts(rb_conf.max_retries)
    /\ LET called == Append(rb_trace, CallEvent(o))
           exc == [kind |-> o, at |-> Len(SelectSeq(called, LAMBDA e : e.ev = "call"))]
       IN
       IF o = "value" THEN
            /\ rb_trace' = called
            /\ rb_result' = [status |-> "returned", value |-> "value", exc |-> NoException]
            /\ UNCHANGED <<rb_attempt, rb_delay, rb_last, rb_console>>
       ELSE IF Listed(rb_conf.exceptions, o) THEN
            /\ rb_last' = exc
            /\ IF rb_attempt < rb_conf.max_retries
               THEN /\ rb_console' = rb_console \o <<"Attempt failed", "Retrying">>
                    /\ rb_trace' = Append(called, SleepEvent(rb_delay))
                    /\ IF interrupted
                       THEN /\ rb_result' = [status |-> "raised", value |-> "",
                                             exc |-> [kind |-> "KeyboardInterrupt", at |-> 0]]
                            /\ UNCHANGED <<rb_attempt, rb_delay>>
                       ELSE /\ rb_delay' = rb_delay * rb_conf.backoff_factor
                            /\ rb_attempt' = rb_attempt + 1
                            /\ UNCHANGED rb_result
               ELSE /\ rb_console' = Append(rb_console, "All retry attempts failed")
                    /\ rb_trace' = called
                    /\ rb_attempt' = rb_attempt + 1
                    /\ UNCHANGED <<rb_delay, rb_result>>
       ELSE \* no except clause matches: the exception leaves the wrapper
            /\ rb_trace' = called
            /\ rb_result' = [status |-> "raised", value |-> "", exc |-> exc]
            /\ UNCHANGED <<rb_attempt, rb_delay, rb_last, rb_console>>
    /\ RbFrame

\* The loop is over: raise last_exception.  When no exception was caught,
\* cli/utils.py raises a RuntimeError and cli_helpers.py executes "raise
\* None", a TypeError.
RbExhausted ==
    /\ rb_result = Pending
    /\ ~(rb_attempt < RbAttempts(rb_conf.max_retries))
    /\ rb_result' =
          IF rb_last = NoException
          THEN [status |-> "raised", value |-> "",
                exc |-> [kind |-> IF rb_impl = "cli.utils" THEN "RuntimeError"
                                  ELSE "TypeError",
                         at |-> 0]]
          ELSE [status |-> "raised", value |-> "", exc |-> rb_last]
    /\ UNCHANGED <<rb_attempt, rb_delay, rb_last, rb_trace, rb_console>>
    /\ RbFrame

NextRb ==
    \/ \E o \in FuncOutcomes, i \in BOOLEAN : RbAttempt(o, i)
    \/ RbExhausted

SpecRb == InitRb /\ [][NextRb]_vars

(***************************************************************************)
(* Claim about retry_with_backoff.                                         *)
(***************************************************************************)
RbCalls == SelectSeq(rb_trace, LAMBDA e : e.ev = "call")
RbSleeps == SelectSeq(rb_trace, LAMBDA e : e.ev = "sleep")
RbAllListed(n) == \A j \in 1..n : Listed(rb_conf.exceptions, RbCalls[j].what)
RbUninterrupted ==
    rb_result.status = "raised" => rb_result.exc # [kind |-> "KeyboardInterrupt", at |-> 0]
RECURSIVE Power(_, _)
Power(b, i) == IF i = 0 THEN 1 ELSE b * Power(b, i - 1)

\* C25: with N = max_retries >= 0 retries, d = initial_delay and
\* b = backoff_factor, and no interrupt during a sleep: when every call
\* raises a listed exception, the function is called exactly N+1 times with
\* exactly N sleeps, of d, d*b, d*b^2, ..., each between two calls, and the
\* exception of the last call itself is raised, unwrapped; when call j,
\* j <= N+1, is the first that succeeds, the function is called exactly j
\* times and its value is returned; a call that raises an exception that is
\* not listed is the last event, and that exception is raised.
C25_RetryWithBackoff ==
    LET N == rb_conf.max_retries
    IN  /\ (N >= 0 /\ RbAllListed(Len(RbCalls)) /\ RbUninterrupted)
            => /\ Len(RbCalls) <= N + 1
               /\ rb_result # Pending
                  => /\ Len(RbCalls) = N + 1
                     /\ Len(RbSleeps) = N
                     /\ \A i \in 0..(N - 1) :
                           RbSleeps[i + 1].delay = rb_conf.initial_delay * Power(rb_conf.backoff_factor, i)
                     /\ Len(rb_trace) = 2 * N + 1
                     /\ \A i \in 1..N : /\ rb_trace[2 * i - 1].ev = "call"
                                        /\ rb_trace[2 * i].ev = "sleep"
                     /\ rb_result = [status |-> "raised", value |-> "",
                                     exc |-> [kind |-> RbCalls[N + 1].what, at |-> N + 1]]
        /\ \A j \in 1..(N + 1) :
              (/\ Len(RbCalls) >= j
               /\ RbAllListed(j - 1)
               /\ RbCalls[j].what = "value")
              => /\ Len(RbCalls) = j
                 /\ Len(RbSleeps) = j - 1
                 /\ rb_result = [status |-> "returned", value |-> "value", exc |-> NoException]
        /\ \A k \in 1..Len(rb_trace) :
              (/\ rb_trace[k].ev = "call"
               /\ rb_trace[k].what # "value"
               /\ ~Listed(rb_conf.exceptions, rb_trace[k].what))
              => /\ k = Len(rb_trace)
                 /\ rb_result = [status |-> "raised", value |-> "",
                                 exc |-> [kind |-> rb_trace[k].what, at |-> Len(RbCalls)]]

\* C25 witness: max_retries = 2, initial_delay = 1, backoff_factor = 3, the
\* three calls raise ValueError, the sleeps last 1 and 3, and the third
\* ValueError is raised.
C25_Witness ==
    /\ rb_conf.max_retries = 2
    /\ rb_trace = <<CallEvent("ValueError"), SleepEvent(1), CallEvent("ValueError"),
                    SleepEvent(3), CallEvent("ValueError")>>
    /\ rb_result = [status |-> "raised", value |-> "",
                    exc |-> [kind |-> "ValueError", at |-> 3]]

\* C25 witness, the filter: with exceptions = (ValueError,) a TypeError of
\* the first call was raised at once, without a sleep.
C25_FilterWitness ==
    /\ rb_conf.exceptions = "ValueError" /\ rb_conf.max_retries = 2
    /\ rb_trace = <<CallEvent("TypeError")>>
    /\ rb_result.status = "raised" /\ rb_result.exc = [kind |-> "TypeError", at |-> 1]

(***************************************************************************)
(* Claims about the order of generation, checks and writes in convert.     *)
(***************************************************************************)
\* what convert prints once it has examined the destination and found it
DestinationExamined ==
    {"Skipping conversion: output file already exists", "Merging with existing file",
     "Will overwrite existing file"}

\* C26: convert calls ConfigTransformer.transform, once, before it examines
\* whether the destination exists: when it reports an existing destination,
\* and in particular when it skips, exactly one generation call has been
\* made and has returned, and a skip leaves the generated text unused, the
\* destination being as it was found.
C26_GeneratesBeforeSkip ==
    /\ cv_calls <= 1
    /\ cv_pc = "reconcile" => (cv_calls = 1 /\ Generation)
    /\ Printed \cap DestinationExamined # {} => (cv_calls = 1 /\ Generation)
    /\ "Skipping conversion: output file already exists" \in Printed
          => /\ cv_calls = 1
             /\ Generation
             /\ cv_dest0.exists /\ Lower(cv_action) = "skip"
             /\ cv_dest = cv_dest0

\* C26 witness: with action skip and an existing destination, convert made
\* its one generation call, which returned prose, then printed that it
\* skips.
C26_Witness ==
    /\ Lower(cv_action) = "skip"
    /\ cv_dest0.exists
    /\ cv_calls = 1
    /\ cv_new \in NonJsonTexts
    /\ cv_console[Len(cv_console)] = "Skipping conversion: output file already exists"
    /\ cv_dest = cv_dest0

\* C27 does not hold of the code: when the user declines the confirmation
\* of the interactive mode, convert ends with exit code 0, having made no
\* generation call and no write.
C27_DeclineExitsZero ==
    "Conversion cancelled." \in Printed
        => /\ cv_exit = 0
           /\ cv_calls = 0
           /\ cv_dest = cv_dest0

\* C28: the destination changes only after the generation has returned its
\* output; when ConfigTransformer.transform fails, at the creation of the
\* provider, the construction of the prompt, the generation or the
\* validation of the output (or at the reading of the input), convert ends
\* with exit code 1 and the destination is as it was found: not created,
\* not modified, its parent directory not created.
C28_WriteOnlyAfterGeneration ==
    /\ cv_dest # cv_dest0 => (Generation /\ cv_calls = 1)
    /\ cv_pc \in {"write", "open", "writing"} => Generation
    /\ cv_exc.at \in TransformStages
          => /\ cv_pc = "done"
             /\ cv_exit = 1
             /\ ~Generation
             /\ cv_dest = cv_dest0

\* C28 witness: the validation of the generated output failed in a run whose
\* destination and parent directory did not exist; convert exited with code
\* 1 and neither exists.
C28_Witness ==
    /\ cv_exc.at = "validate_output"
    /\ cv_dest0 = [exists |-> FALSE, parent |-> FALSE]
    /\ cv_dest = cv_dest0
    /\ cv_calls = 1
    /\ cv_exit = 1

(***************************************************************************)
(* Claim about the retry budget of LiteLLMClient.generate.                 *)
(***************************************************************************)
\* C29 does not hold of the code: for every max_retries, zero and negative
\* values included, generate has made at least one completion call when it
\* raises, and the RuntimeError of an exhausted budget has a cause.
C29_CallBeforeRaise ==
    gen_result.status = "raised"
        => /\ Len(Calls) >= 1
           /\ gen_result.type = "RuntimeError" => gen_result.cause # NoException

(***************************************************************************)
(* get_default_output_path and show-defaults.                              *)
(*                                                                         *)
(* PROVIDER_DEFAULT_OUTPUT_FILES is a defaultdict: a sequence of entries   *)
(* in insertion order, and a factory for the keys it does not hold.        *)
(***************************************************************************)
MaxLookups == 2

\* the table as cli/constants.py defines it (three of its entries)
DefaultOutputFiles ==
    <<[name |-> "vscode", path |-> ".vscode/mcp.json"],
      [name |-> "claude", path |-> "mcp.json"],
      [name |-> "codex", path |-> ".mcp.json"]>>

\* the provider arguments: two known names, a known name in capitals, a
\* name that is in no table
LookupProviders == {"vscode", "codex", "VSCODE", "unknown"}

\* DefaultOutputEnvVar[provider.upper()].value, the generic variable on
\* KeyError
OutputEnvVar(p) ==
    CASE p \in {"vscode", "VSCODE"} -> "MCP_CONFIG_CONV_VSCODE_DEFAULT_OUTPUT"
      [] p \in {"claude", "CLAUDE"} -> "MCP_CONFIG_CONV_CLAUDE_DEFAULT_OUTPUT"
      [] p \in {"codex", "CODEX"} -> "MCP_CONFIG_CONV_CODEX_DEFAULT_OUTPUT"
      [] OTHER -> "MCP_CONFIG_CONV_DEFAULT_OUTPUT"
OutputEnvVars ==
    {"MCP_CONFIG_CONV_VSCODE_DEFAULT_OUTPUT", "MCP_CONFIG_CONV_CODEX_DEFAULT_OUTPUT",
     "MCP_CONFIG_CONV_DEFAULT_OUTPUT"} \cup {OutputEnvVar(p) : p \in LookupProviders}
\* a variable is unset, empty, or holds a path
NoPath == [set |-> FALSE, text |-> ""]
OutputEnvValues == {NoPath, [set |-> TRUE, text |-> ""], [set |-> TRUE, text |-> "/custom/mcp.json"]}

\* os.getenv(env_var_name): a variable the environment does not hold is unset
OutputEnvValue(env, n) == IF n \in DOMAIN env THEN env[n] ELSE NoPath

HasKey(files, p) == \E i \in 1..Len(files) : files[i].name = p
ValueOf(files, p) == files[CHOOSE i \in 1..Len(files) : files[i].name = p].path

\* PROVIDER_DEFAULT_OUTPUT_FILES[provider]: a missing key is given the
\* value of the factory, Path("mcp.json"), and stored
GetItem(files, p) ==
    IF HasKey(files, p) THEN [value |-> ValueOf(files, p), files |-> files]
    ELSE [value |-> "mcp.json",
          files |-> Append(files, [name |-> p, path |-> "mcp.json"])]

\* get_default_output_path(provider): the tuple it returns and the table
\* it leaves
GetDefaultOutputPath(files, env, p) ==
    LET v == OutputEnvValue(env, OutputEnvVar(p))
    IN  IF v.set /\ v.text # ""
        THEN [path |-> v.text, env_var_name |-> OutputEnvVar(p), env_var_value |-> v,
              files |-> files]
        ELSE [path |-> GetItem(files, p).value, env_var_name |-> OutputEnvVar(p),
              env_var_value |-> NoPath, files |-> GetItem(files, p).files]

\* the loop of show_defaults: one row, and one lookup, per entry of the table
RECURSIVE ShowRows(_, _, _)
ShowRows(files, env, i) ==
    IF i > Len(files) THEN [rows |-> <<>>, files |-> files]
    ELSE LET r == GetDefaultOutputPath(files, env, files[i].name)
             rest == ShowRows(r.files, env, i + 1)
         IN  [rows |-> <<files[i].name>> \o rest.rows, files |-> rest.files]

InitOut ==
    /\ out_files = DefaultOutputFiles
    /\ out_files0 = out_files
    /\ out_env \in [OutputEnvVars -> OutputEnvValues]
    /\ out_result = Pending
    /\ out_count = 0
    /\ sd_listed = Pending
    /\ max_retries = 0 /\ retry_delay = 0 /\ attempt = 0
    /\ last_exception = NoException
    /\ gen_trace = <<>> /\ gen_result = Pending
    /\ RbIdle
    /\ RegIdle /\ RmIdle /\ FmtIdle /\ MdIdle /\ CvIdle

OutFrame ==
    /\ UNCHANGED <<max_retries, retry_delay, attempt, last_exception, gen_trace,
                   gen_result, rbVars, out_files0, out_env>>
    /\ UNCHANGED <<regVars, rmVars, fmtVars, mdVars, cvVars>>

LookupDefaultOutput(p) ==
    /\ out_count < MaxLookups
    /\ LET r == GetDefaultOutputPath(out_files, out_env, p)
       IN  /\ out_result' = [provider |-> p, path |-> r.path,
                             env_var_name |-> r.env_var_name,
                             env_var_value |-> r.env_var_value]
           /\ out_files' = r.files
    /\ out_count' = out_count + 1
    /\ UNCHANGED sd_listed
    /\ OutFrame

ShowDefaults ==
    /\ sd_listed' = [status |-> "printed",
                     providers |-> ShowRows(out_files, out_env, 1).rows]
    /\ out_files' = ShowRows(out_files, out_env, 1).files
    /\ UNCHANGED <<out_result, out_count>>
    /\ OutFrame

NextOut ==
    \/ \E p \in LookupProviders : LookupDefaultOutput(p)
    \/ ShowDefaults

SpecOut == InitOut /\ [][NextOut]_vars

(***************************************************************************)
(* Claim about the default output paths.                                   *)
(***************************************************************************)
NamesOf(files) == {files[i].name : i \in 1..Len(files)}

\* C30 does not hold of the code: get_default_output_path(provider)
\* returns, for a known or an unknown provider, the override when its
\* variable is set and not empty and the default path otherwise, and it
\* leaves PROVIDER_DEFAULT_OUTPUT_FILES as it was, so that show-defaults
\* lists the same providers after any lookups as before them.
C30_PureLookup ==
    /\ out_result # Pending =>
          LET v == OutputEnvValue(out_env, OutputEnvVar(out_result.provider))
          IN  out_result.path =
                 IF v.set /\ v.text # "" THEN v.text
                 ELSE IF HasKey(out_files0, out_result.provider)
                 THEN ValueOf(out_files0, out_result.provider)
                 ELSE "mcp.json"
    /\ out_files = out_files0
    /\ sd_listed # Pending =>
          {sd_listed.providers[i] : i \in 1..Len(sd_listed.providers)} = NamesOf(out_files0)

====
